---- MODULE Spec2Model ----
(***************************************************************************)
(* Choice resolution and combat engine of the adventure game               *)
(* (internal/game/engine.go, multi-enemy revision, lines 1-443).           *)
(*                                                                         *)
(* A PlayerState is the record [NodeID, Stats, Enemies].  One /play        *)
(* request runs Engine.ApplyChoice on the session's PlayerState and keeps   *)
(* the StepResult until the response is rendered.  Dice are the only       *)
(* source of nondeterminism inside the engine; the submitted choice key is *)
(* the only input.                                                         *)
(*                                                                         *)
(* Strings that the code takes apart (choice keys such as                  *)
(* "battle:attack:0") are sequences of their colon-separated fields, so    *)
(* that HasPrefix / slicing / Atoi are computed, not assumed.              *)
(***************************************************************************)
EXTENDS Integers, Sequences, FiniteSets, TLC

VARIABLES
    player,     \* the session's PlayerState
    res,        \* the StepResult of the request in flight (plus its trace)
    pc,         \* "idle": waiting for a request; "returned": result to render
    hasDeath,   \* whether the loaded story defines the "death" node
    probe       \* input/output of the pure functions exercised on their own

vars == <<player, res, pc, hasDeath, probe>>

----------------------------------------------------------------------------
(* Program constants, engine.go:14-54 *)

MinStat == 1

MaxStat == 12

MinHealth == 0

DeathNodeID == "death"

OutcomeSuccess == "success"

OutcomeFailure == "failure"

OutcomeVictory == "victory"

OutcomeDefeat == "defeat"

OutcomeTie == "tie"

OutcomePlayerHit == "player_hit"

OutcomeEnemyHit == "enemy_hit"

StatStrength == "strength"

StatLuck == "luck"

StatHealth == "health"

OpAdd == "add"

HordeName == "Horde"

(* collapseToHorde keeps lists of at most this many enemies (engine.go:81) *)
HordeThreshold == 3

(* A nil *int (LastRoll) and a nil *string (LastOutcome) *)
NoRoll == 0

NoOutcome == ""

----------------------------------------------------------------------------
(* Bounds of the model *)

(* Longest enemy list of a Battle definition in the materialization check *)
MaxEnemies == 4

(* Longest effect list in the effect-applier check *)
MaxEffects == 2

(* Longest typed answer, in characters, in the prompt check *)
MaxAnswerLen == 4

(* Longest Answers list of a Prompt in the prompt check *)
MaxAnswers == 2

(* Calls the two sessions of the shared-story check make together *)
MaxCalls == 3

(* POST /reroll requests of one session in the setup check *)
MaxRerolls == 2

(* Store operations the callers of the session-store check make together *)
MaxOps == 4

(* Largest number read from the entropy source in the dice check *)
MaxEntropy == 11

----------------------------------------------------------------------------
(* Small arithmetic helpers *)

Min2(a, b) == IF a < b THEN a ELSE b

Max2(a, b) == IF a > b THEN a ELSE b

(* Go integer division truncates toward zero *)
GoDiv(a, b) == IF a >= 0 THEN a \div b ELSE -((-a) \div b)

(* s with its i-th element (1-based) removed *)
RemoveAt(s, i) == SubSeq(s, 1, i - 1) \o SubSeq(s, i + 1, Len(s))

----------------------------------------------------------------------------
(* Data constructors, unnamed/part_006 (types) *)

Stats(s, l, h) == [Strength |-> s, Luck |-> l, Health |-> h]

EnemyState(n, s, h) == [Name |-> n, Strength |-> s, Health |-> h]

Enemy(n, s, h) == [Name |-> n, Strength |-> s, Health |-> h]

(* ClampMax / ClampMin are *int: has* tells whether the pointer is set *)
Effect(op, stat, v) ==
    [Op |-> op, Stat |-> stat, Value |-> v,
     hasMax |-> FALSE, ClampMax |-> 0, hasMin |-> FALSE, ClampMin |-> 0]

WithMax(ef, m) == [ef EXCEPT !.hasMax = TRUE, !.ClampMax = m]

WithMin(ef, m) == [ef EXCEPT !.hasMin = TRUE, !.ClampMin = m]

Check(stat, roll, target) == [Stat |-> stat, Roll |-> roll, Target |-> target]

Battle(enemies, name, str, hp, onV, onD) ==
    [Enemies |-> enemies, EnemyName |-> name, EnemyStrength |-> str,
     EnemyHealth |-> hp, OnVictoryNext |-> onV, OnDefeatNext |-> onD]

NoCheck == Check("", "", "")

NoBattle == Battle(<<>>, "", 0, 0, "", "")

(* A Choice; hasCheck / hasBattle tell whether the pointer fields are set *)
Choice(key, next) ==
    [Key |-> key, Next |-> next, Mode |-> "",
     hasCheck |-> FALSE, Check |-> NoCheck,
     OnSuccessNext |-> "", OnFailureNext |-> "",
     Effects |-> <<>>,
     hasBattle |-> FALSE, Battle |-> NoBattle]

WithEffects(ch, effs) == [ch EXCEPT !.Effects = effs]

WithCheck(ch, c, onS, onF) ==
    [ch EXCEPT !.hasCheck = TRUE, !.Check = c,
               !.OnSuccessNext = onS, !.OnFailureNext = onF]

WithBattle(ch, mode, b) == [ch EXCEPT !.hasBattle = TRUE, !.Battle = b, !.Mode = mode]

Node(choices, effects) == [Choices |-> choices, Effects |-> effects]

PlayerState(node, stats, enemies) ==
    [NodeID |-> node, Stats |-> stats, Enemies |-> enemies]

(* engine.go:112-122 *)
NewPlayer(start) == PlayerState(start, Stats(7, 7, 12), <<>>)

----------------------------------------------------------------------------
(* Effect applier, engine.go:369-426 *)

getStat(st, stat) ==
    CASE stat = StatStrength -> st.Stats.Strength
      [] stat = StatLuck     -> st.Stats.Luck
      [] stat = StatHealth   -> st.Stats.Health
      [] OTHER               -> 0

setStat(st, stat, v) ==
    CASE stat = StatStrength -> [st EXCEPT !.Stats.Strength = v]
      [] stat = StatLuck     -> [st EXCEPT !.Stats.Luck = v]
      [] stat = StatHealth   -> [st EXCEPT !.Stats.Health = v]
      [] OTHER               -> st

(* Faulty variant: the story's clamps are applied after the global bounds *)
applyEffectStoryClampLast(st, ef) ==
    IF ef.Op # OpAdd THEN st
    ELSE
      LET nv0 == getStat(st, ef.Stat) + ef.Value
          nv1 == CASE ef.Stat \in {StatStrength, StatLuck} ->
                        Min2(Max2(nv0, MinStat), MaxStat)
                   [] ef.Stat = StatHealth -> Max2(nv0, MinHealth)
                   [] OTHER -> nv0
          nv2 == IF ef.hasMax /\ nv1 > ef.ClampMax THEN ef.ClampMax ELSE nv1
          nv3 == IF ef.hasMin /\ nv2 < ef.ClampMin THEN ef.ClampMin ELSE nv2
      IN setStat(st, ef.Stat, nv3)

(* Faulty variant: the global upper bound of strength and luck is not enforced *)
applyEffectNoUpperBound(st, ef) ==
    IF ef.Op # OpAdd THEN st
    ELSE
      LET nv0 == getStat(st, ef.Stat) + ef.Value
          nv1 == IF ef.hasMax /\ nv0 > ef.ClampMax THEN ef.ClampMax ELSE nv0
          nv2 == IF ef.hasMin /\ nv1 < ef.ClampMin THEN ef.ClampMin ELSE nv1
          nv3 == CASE ef.Stat \in {StatStrength, StatLuck} ->
                        IF nv2 < MinStat THEN MinStat ELSE nv2
                   [] ef.Stat = StatHealth ->
                        IF nv2 < MinHealth THEN MinHealth ELSE nv2
                   [] OTHER -> nv2
      IN setStat(st, ef.Stat, nv3)

(* One iteration of the loop of applyEffects, engine.go:394-425 *)
applyEffect(st, ef) ==
    IF ef.Op # OpAdd THEN st
    ELSE
      LET cur == getStat(st, ef.Stat)
          nv0 == cur + ef.Value
          nv1 == IF ef.hasMax /\ nv0 > ef.ClampMax THEN ef.ClampMax ELSE nv0
          nv2 == IF ef.hasMin /\ nv1 < ef.ClampMin THEN ef.ClampMin ELSE nv1
          nv3 == CASE ef.Stat \in {StatStrength, StatLuck} ->
                        LET lo == IF nv2 < MinStat THEN MinStat ELSE nv2
                        IN  IF lo > MaxStat THEN MaxStat ELSE lo
                   [] ef.Stat = StatHealth ->
                        IF nv2 < MinHealth THEN MinHealth ELSE nv2
                   [] OTHER -> nv2
      IN setStat(st, ef.Stat, nv3)

RECURSIVE applyEffects(_, _)
applyEffects(st, effs) ==
    IF effs = <<>> THEN st
    ELSE applyEffects(applyEffect(st, Head(effs)), Tail(effs))

----------------------------------------------------------------------------
(* Dice, engine.go:428-443 *)

(* d6 yields int(n%6)+1 for a random n, or 1 when the entropy source fails *)
d6 == 1..6

(* roll2d6 returns d6() + d6() *)
roll2d6 == {a + b : a \in d6, b \in d6}

----------------------------------------------------------------------------
(* Battle initialization, engine.go:56-95 *)

(* Faulty variant: the legacy fields always yield an enemy *)
getBattleEnemiesPhantom(b) ==
    IF Len(b.Enemies) > 0
    THEN [i \in 1..Len(b.Enemies) |->
            LET e == b.Enemies[i]
                h == IF e.Health <= 0 THEN 1 ELSE e.Health
            IN  EnemyState(e.Name, e.Strength, h)]
    ELSE LET h == IF b.EnemyHealth <= 0 THEN 1 ELSE b.EnemyHealth
         IN  <<EnemyState(b.EnemyName, b.EnemyStrength, h)>>

(* engine.go:57-77 *)
getBattleEnemies(b) ==
    IF Len(b.Enemies) > 0
    THEN [i \in 1..Len(b.Enemies) |->
            LET e == b.Enemies[i]
                h == IF e.Health <= 0 THEN 1 ELSE e.Health
            IN  EnemyState(e.Name, e.Strength, h)]
    ELSE IF b.EnemyName # "" \/ b.EnemyHealth > 0
         THEN LET h == IF b.EnemyHealth <= 0 THEN 1 ELSE b.EnemyHealth
              IN  <<EnemyState(b.EnemyName, b.EnemyStrength, h)>>
         ELSE <<>>

RECURSIVE sumHealth(_)
sumHealth(es) == IF es = <<>> THEN 0 ELSE Head(es).Health + sumHealth(Tail(es))

RECURSIVE sumStr(_)
sumStr(es) == IF es = <<>> THEN 0 ELSE Head(es).Strength + sumStr(Tail(es))

(* Faulty variant: a list of four is not collapsed *)
collapseToHordeOverFour(es) ==
    IF Len(es) <= HordeThreshold + 1 THEN es
    ELSE <<EnemyState(HordeName,
                      IF GoDiv(sumStr(es), Len(es)) < MinStat THEN MinStat
                      ELSE GoDiv(sumStr(es), Len(es)),
                      sumHealth(es))>>

(* Faulty variant: the mean strength is rounded up *)
collapseToHordeCeil(es) ==
    IF Len(es) <= HordeThreshold THEN es
    ELSE LET meanStr == GoDiv(sumStr(es) + Len(es) - 1, Len(es))
         IN  <<EnemyState(HordeName,
                          IF meanStr < MinStat THEN MinStat ELSE meanStr,
                          sumHealth(es))>>

collapseToHorde(es) ==
    IF Len(es) <= HordeThreshold THEN es
    ELSE LET meanStr == GoDiv(sumStr(es), Len(es))
         IN  <<EnemyState(HordeName,
                          IF meanStr < MinStat THEN MinStat ELSE meanStr,
                          sumHealth(es))>>

----------------------------------------------------------------------------
(* One opposed-roll round, engine.go:314-354.  playerRoll and enemyRoll    *)
(* are the two roll2d6() results of lines 319-320.                         *)

(* Faulty variant: the enemy also wins ties *)
resolveBattleRoundTieHurts(st, enemyStrength, enemyHealth, playerDamage, playerRoll, enemyRoll) ==
    LET eh0 == IF enemyHealth <= 0 THEN 1 ELSE enemyHealth
        playerTotal == st.Stats.Strength + playerRoll
        enemyTotal == enemyStrength + enemyRoll
    IN  IF playerTotal > enemyTotal
        THEN LET eh1 == eh0 - playerDamage
             IN  [st |-> st, newEnemyHealth |-> IF eh1 <= 0 THEN 0 ELSE eh1,
                  rollResult |-> playerRoll,
                  outcome |-> IF eh1 <= 0 THEN OutcomeVictory ELSE OutcomePlayerHit]
        ELSE LET h1 == st.Stats.Health - 1
             IN  [st |-> [st EXCEPT !.Stats.Health = IF h1 <= MinHealth THEN MinHealth ELSE h1],
                  newEnemyHealth |-> eh0, rollResult |-> playerRoll,
                  outcome |-> IF h1 <= MinHealth THEN OutcomeDefeat ELSE OutcomeEnemyHit]

(* Faulty variant: the player's Strength is left out of the player's total *)
resolveBattleRoundNoStrength(st, enemyStrength, enemyHealth, playerDamage, playerRoll, enemyRoll) ==
    LET eh0 == IF enemyHealth <= 0 THEN 1 ELSE enemyHealth
        playerTotal == playerRoll
        enemyTotal == enemyStrength + enemyRoll
    IN  CASE playerTotal > enemyTotal ->
               LET eh1 == eh0 - playerDamage
               IN  [st |-> st, newEnemyHealth |-> IF eh1 <= 0 THEN 0 ELSE eh1,
                    rollResult |-> playerRoll,
                    outcome |-> IF eh1 <= 0 THEN OutcomeVictory ELSE OutcomePlayerHit]
          [] enemyTotal > playerTotal ->
               LET h1 == st.Stats.Health - 1
               IN  [st |-> [st EXCEPT !.Stats.Health = IF h1 <= MinHealth THEN MinHealth ELSE h1],
                    newEnemyHealth |-> eh0, rollResult |-> playerRoll,
                    outcome |-> IF h1 <= MinHealth THEN OutcomeDefeat ELSE OutcomeEnemyHit]
          [] OTHER ->
               [st |-> st, newEnemyHealth |-> eh0, rollResult |-> playerRoll,
                outcome |-> OutcomeTie]

(* Faulty variant: the enemy's hit costs the player nothing *)
resolveBattleRoundNoHurt(st, enemyStrength, enemyHealth, playerDamage, playerRoll, enemyRoll) ==
    LET eh0 == IF enemyHealth <= 0 THEN 1 ELSE enemyHealth
        playerTotal == st.Stats.Strength + playerRoll
        enemyTotal == enemyStrength + enemyRoll
    IN  CASE playerTotal > enemyTotal ->
               LET eh1 == eh0 - playerDamage
               IN  [st |-> st, newEnemyHealth |-> IF eh1 <= 0 THEN 0 ELSE eh1,
                    rollResult |-> playerRoll,
                    outcome |-> IF eh1 <= 0 THEN OutcomeVictory ELSE OutcomePlayerHit]
          [] enemyTotal > playerTotal ->
               [st |-> st, newEnemyHealth |-> eh0, rollResult |-> playerRoll,
                outcome |-> IF st.Stats.Health <= MinHealth
                            THEN OutcomeDefeat ELSE OutcomeEnemyHit]
          [] OTHER ->
               [st |-> st, newEnemyHealth |-> eh0, rollResult |-> playerRoll,
                outcome |-> OutcomeTie]

(* engine.go:314-354 *)
resolveBattleRound(st, enemyStrength, enemyHealth, playerDamage, playerRoll, enemyRoll) ==
    LET eh0 == IF enemyHealth <= 0 THEN 1 ELSE enemyHealth
        playerTotal == st.Stats.Strength + playerRoll
        enemyTotal == enemyStrength + enemyRoll
    IN  CASE playerTotal > enemyTotal ->
               LET eh1 == eh0 - playerDamage
               IN  [st |-> st, newEnemyHealth |-> IF eh1 <= 0 THEN 0 ELSE eh1,
                    rollResult |-> playerRoll,
                    outcome |-> IF eh1 <= 0 THEN OutcomeVictory ELSE OutcomePlayerHit]
          [] enemyTotal > playerTotal ->
               LET h1 == st.Stats.Health - 1
               IN  [st |-> [st EXCEPT !.Stats.Health = IF h1 <= MinHealth THEN MinHealth ELSE h1],
                    newEnemyHealth |-> eh0, rollResult |-> playerRoll,
                    outcome |-> IF h1 <= MinHealth THEN OutcomeDefeat ELSE OutcomeEnemyHit]
          [] OTHER ->
               [st |-> st, newEnemyHealth |-> eh0, rollResult |-> playerRoll,
                outcome |-> OutcomeTie]

----------------------------------------------------------------------------
(* Stat check, engine.go:361-367 *)

(* Faulty variant: the roll has to be strictly below the stat *)
checkRollStrict(st, c, roll) ==
    IF c.Roll # "2d6" \/ c.Target # "stat"
    THEN [ok |-> FALSE, err |-> TRUE]
    ELSE [ok |-> roll < getStat(st, c.Stat), err |-> FALSE]

checkRoll(st, c, roll) ==
    IF c.Roll # "2d6" \/ c.Target # "stat"
    THEN [ok |-> FALSE, err |-> TRUE]
    ELSE [ok |-> roll <= getStat(st, c.Stat), err |-> FALSE]

----------------------------------------------------------------------------
(* Choice keys.  A key is the sequence of its colon-separated fields:      *)
(* "battle:attack:0" is <<"battle", "attack", "0">>.  Story keys hold no   *)
(* colon, so a Choice's Key k is the one-field key <<k>>.                  *)

(* choiceKey == k *)
KeyEquals(choiceKey, k) == choiceKey = <<k>>

(* strings.HasPrefix(choiceKey, k + ":") *)
HasKeyPrefix(choiceKey, k) == Len(choiceKey) >= 2 /\ choiceKey[1] = k

(* strconv.Atoi on the decimal strings the model submits; any other string *)
(* (empty, non-numeric, or holding a colon) is an error                    *)
Digits == ("0" :> 0) @@ ("1" :> 1) @@ ("2" :> 2) @@ ("3" :> 3) @@ ("-1" :> -1)

Atoi(fields) ==
    IF Len(fields) = 1 /\ fields[1] \in DOMAIN Digits
    THEN [ok |-> TRUE, n |-> Digits[fields[1]]]
    ELSE [ok |-> FALSE, n |-> 0]

(* The smallest index at which the sequence of booleans is TRUE, or 0 *)
FirstIndex(hits) ==
    IF \E i \in 1..Len(hits) : hits[i]
    THEN CHOOSE i \in 1..Len(hits) : hits[i] /\ \A j \in 1..(i - 1) : ~hits[j]
    ELSE 0

----------------------------------------------------------------------------
(* Battle engine, engine.go:233-310 *)

NoRound == [st |-> 0, newEnemyHealth |-> 0, rollResult |-> NoRoll, outcome |-> ""]

(* What one applyBattle call did: the trace the properties are stated on *)
NoBattleTrace ==
    [called |-> FALSE, materialized |-> FALSE, initial |-> <<>>,
     ran |-> FALSE, fought |-> FALSE, isLuck |-> FALSE, index |-> 0,
     entry |-> 0, armed |-> 0, damage |-> 0,
     playerRoll |-> NoRoll, enemyRoll |-> NoRoll, round |-> NoRound,
     kept |-> <<>>, settled |-> 0]

(* engine.go:244-256: the action named by the key, or the legacy default *)
battleAction(ch, choiceKey) ==
    IF HasKeyPrefix(choiceKey, ch.Key)
    THEN SubSeq(choiceKey, 2, Len(choiceKey))
    ELSE IF ch.Mode = "battle_luck" THEN <<"luck", "0">> ELSE <<"attack", "0">>

(* Faulty variant: flight leaves the enemies in place *)
runAwayKeepsEnemies(st, ch) == [st |-> st, next |-> ch.Next]

(* engine.go:258-261 *)
runAway(st, ch) == [st |-> [st EXCEPT !.Enemies = <<>>], next |-> ch.Next]

(* Faulty variant: Luck is spent without the floor *)
spendLuckNoFloor(st) == [st EXCEPT !.Stats.Luck = st.Stats.Luck - 1]

(* engine.go:277-280 *)
spendLuck(st) ==
    LET l == st.Stats.Luck - 1
    IN  [st EXCEPT !.Stats.Luck = IF l < MinStat THEN MinStat ELSE l]

(* Faulty variant: the enemy at the head of the list is the one dropped *)
removeDefeatedHead(enemies, enemyIndex, newHealth) ==
    LET es1 == [enemies EXCEPT ![enemyIndex + 1].Health = newHealth]
    IN  IF newHealth <= 0 THEN Tail(es1) ELSE es1

(* engine.go:295-298: the target takes its new health and leaves the list *)
(* when that health is spent                                               *)
removeDefeated(enemies, enemyIndex, newHealth) ==
    LET es1 == [enemies EXCEPT ![enemyIndex + 1].Health = newHealth]
    IN  IF newHealth <= 0 THEN RemoveAt(es1, enemyIndex + 1) ELSE es1

(* Faulty variant: a defeat is routed to the Battle's OnDefeatNext *)
finishRoundOnDefeatNext(st, b, enemyIndex, newHealth, outcome) ==
    LET es2 == removeDefeated(st.Enemies, enemyIndex, newHealth)
    IN  IF Len(es2) = 0
        THEN [st |-> [st EXCEPT !.Enemies = es2], next |-> b.OnVictoryNext,
              kept |-> es2]
        ELSE IF outcome = OutcomeDefeat
             THEN [st |-> [st EXCEPT !.Enemies = <<>>], next |-> b.OnDefeatNext,
                   kept |-> es2]
             ELSE [st |-> [st EXCEPT !.Enemies = es2], next |-> st.NodeID,
                   kept |-> es2]

(* Faulty variant: a victory names no destination of its own *)
finishRoundNoVictoryNext(st, b, enemyIndex, newHealth, outcome) ==
    LET es2 == removeDefeated(st.Enemies, enemyIndex, newHealth)
    IN  IF Len(es2) = 0
        THEN [st |-> [st EXCEPT !.Enemies = es2], next |-> "", kept |-> es2]
        ELSE IF outcome = OutcomeDefeat
             THEN [st |-> [st EXCEPT !.Enemies = <<>>], next |-> DeathNodeID,
                   kept |-> es2]
             ELSE [st |-> [st EXCEPT !.Enemies = es2], next |-> st.NodeID,
                   kept |-> es2]

(* engine.go:295-309: post-round bookkeeping and routing *)
finishRound(st, b, enemyIndex, newHealth, outcome) ==
    LET es2 == removeDefeated(st.Enemies, enemyIndex, newHealth)
    IN  IF Len(es2) = 0
        THEN [st |-> [st EXCEPT !.Enemies = es2],
              next |-> IF b.OnVictoryNext # "" THEN b.OnVictoryNext ELSE "",
              kept |-> es2]
        ELSE IF outcome = OutcomeDefeat
             THEN [st |-> [st EXCEPT !.Enemies = <<>>], next |-> DeathNodeID,
                   kept |-> es2]
             ELSE [st |-> [st EXCEPT !.Enemies = es2], next |-> st.NodeID,
                   kept |-> es2]

(* What applyBattle hands back: the state, its return value, the values   *)
(* behind the caller's lastRoll / lastOutcome pointers, and the trace      *)
BattleResult(st, next, lastRoll, lastOutcome, tr) ==
    [st |-> st, next |-> next, lastRoll |-> lastRoll, lastOutcome |-> lastOutcome,
     trace |-> [tr EXCEPT !.settled = st]]

(* Faulty variant: every invocation materializes the enemies anew *)
beginBattleAfresh(st, b) ==
    [st EXCEPT !.Enemies = collapseToHorde(getBattleEnemies(b))]

(* engine.go:237-242: the first invocation materializes the enemies *)
beginBattle(st, b) ==
    IF Len(st.Enemies) = 0
    THEN [st EXCEPT !.Enemies = collapseToHorde(getBattleEnemies(b))]
    ELSE st

(* engine.go:263-273: the index an "attack:N" / "luck:N" action names, or  *)
(* -1 when the action or the index is invalid for n enemies                *)
targetIndex(action, n) ==
    LET isLuck == Len(action) >= 2 /\ action[1] = "luck"
        isAttack == Len(action) >= 2 /\ action[1] = "attack"
        idx == Atoi(SubSeq(action, 2, Len(action)))
    IN  IF (~isLuck /\ ~isAttack) \/ ~idx.ok \/ idx.n < 0 \/ idx.n >= n
        THEN -1
        ELSE idx.n

(* engine.go:295-309: bookkeeping after the round r against enemy n *)
settleRound(st1, tr, b, isLuck, n, playerDamage, r, fin, lastOutcome, playerRoll, enemyRoll) ==
    BattleResult(fin.st, fin.next, r.rollResult,
                 IF r.outcome # "" THEN r.outcome ELSE lastOutcome,
                 [tr EXCEPT !.fought = TRUE, !.isLuck = isLuck, !.index = n,
                            !.armed = st1, !.damage = playerDamage,
                            !.playerRoll = playerRoll, !.enemyRoll = enemyRoll,
                            !.round = r, !.kept = fin.kept])

(* engine.go:284-293: one round against enemy n *)
fightRound(st1, tr, b, isLuck, n, playerDamage, r, lastOutcome, playerRoll, enemyRoll) ==
    settleRound(st1, tr, b, isLuck, n, playerDamage, r,
                finishRound(r.st, b, n, r.newEnemyHealth, r.outcome),
                lastOutcome, playerRoll, enemyRoll)

(* engine.go:275-293: st1 is the state after the luck spend *)
battleRound(st1, tr, b, isLuck, n, lastOutcome, playerRoll, enemyRoll) ==
    fightRound(st1, tr, b, isLuck, n, IF isLuck THEN 2 ELSE 1,
               resolveBattleRound(st1, st1.Enemies[n + 1].Strength,
                                  st1.Enemies[n + 1].Health,
                                  IF isLuck THEN 2 ELSE 1, playerRoll, enemyRoll),
               lastOutcome, playerRoll, enemyRoll)

(* engine.go:244-293: st0 is the state with the enemies in place *)
battleTurn(st0, fresh, ch, action, n, lastRoll, lastOutcome, playerRoll, enemyRoll) ==
    LET tr0 == [NoBattleTrace EXCEPT !.called = TRUE, !.materialized = fresh,
                                     !.initial = IF fresh THEN st0.Enemies ELSE <<>>,
                                     !.entry = st0]
    IN  IF Len(st0.Enemies) = 0
        THEN BattleResult(st0, ch.Battle.OnVictoryNext, lastRoll, lastOutcome, tr0)
        ELSE IF action = <<"run">>
        THEN BattleResult(runAway(st0, ch).st, runAway(st0, ch).next,
                          lastRoll, lastOutcome, [tr0 EXCEPT !.ran = TRUE])
        ELSE IF n < 0
        THEN BattleResult(st0, "", lastRoll, lastOutcome, tr0)
        ELSE battleRound(IF action[1] = "luck" THEN spendLuck(st0) ELSE st0,
                         tr0, ch.Battle, action[1] = "luck", n,
                         lastOutcome, playerRoll, enemyRoll)

(* applyBattle, engine.go:234-310.  lastRoll / lastOutcome are the values  *)
(* behind the caller's pointers; the result carries their new values.      *)
applyBattle(st, ch, choiceKey, lastRoll, lastOutcome, playerRoll, enemyRoll) ==
    battleTurn(beginBattle(st, ch.Battle), Len(st.Enemies) = 0, ch,
               battleAction(ch, choiceKey),
               targetIndex(battleAction(ch, choiceKey),
                           Len(beginBattle(st, ch.Battle).Enemies)),
               lastRoll, lastOutcome, playerRoll, enemyRoll)

----------------------------------------------------------------------------
(* Choice resolution, engine.go:124-231 *)

Engine(story) == [Story |-> story]

(* CurrentNode, engine.go:125-131: Story.Nodes[st.NodeID] is nil *)
UnknownNode(e, st) == st.NodeID \notin DOMAIN e.Story

(* What one ApplyChoice call did, next to the StepResult it returned *)
NoTrace ==
    [from |-> 0, key |-> <<>>, choice |-> 0, effected |-> 0,
     checked |-> FALSE, checkRoll |-> NoRoll, checkOk |-> FALSE,
     routed |-> FALSE, next |-> "", entered |-> 0, battle |-> NoBattleTrace]

StepResult(st, roll, outcome, msg, err, tr) ==
    [State |-> st, LastRoll |-> roll, LastOutcome |-> outcome,
     ErrorMessage |-> msg, err |-> err, trace |-> tr]

(* Faulty variant: the dynamic match does not ask for a Battle *)
findChoiceAnyPrefix(node, choiceKey) ==
    LET cs == node.Choices
        exact == FirstIndex([i \in 1..Len(cs) |-> KeyEquals(choiceKey, cs[i].Key)])
        dynamic == FirstIndex([i \in 1..Len(cs) |->
                                 KeyEquals(choiceKey, cs[i].Key)
                                 \/ HasKeyPrefix(choiceKey, cs[i].Key)])
    IN  IF exact # 0 THEN exact ELSE dynamic

(* The choice of node selected by choiceKey (its index), engine.go:141-157 *)
findChoice(node, choiceKey) ==
    LET cs == node.Choices
        exact == FirstIndex([i \in 1..Len(cs) |-> KeyEquals(choiceKey, cs[i].Key)])
        dynamic == FirstIndex([i \in 1..Len(cs) |->
                                 cs[i].hasBattle
                                 /\ (KeyEquals(choiceKey, cs[i].Key)
                                     \/ HasKeyPrefix(choiceKey, cs[i].Key))])
    IN  IF exact # 0 THEN exact ELSE dynamic

(* Faulty variant: health is clamped but the death node is not entered *)
gameOverNoRoute(e, st) ==
    IF st.Stats.Health <= MinHealth
    THEN [st EXCEPT !.Stats.Health = MinHealth]
    ELSE st

(* engine.go:221-228: global health-based game over *)
gameOver(e, st) ==
    IF st.Stats.Health <= MinHealth
    THEN LET st1 == [st EXCEPT !.Stats.Health = MinHealth]
         IN  IF DeathNodeID \in DOMAIN e.Story
             THEN [st1 EXCEPT !.NodeID = DeathNodeID]
             ELSE st1
    ELSE st

(* engine.go:221-230: the death check and the StepResult of a call that   *)
(* arrived at a node; st4 is the state after the entry effects             *)
arrive(e, tr, bt, st4) ==
    StepResult(gameOver(e, st4), bt.lastRoll, bt.lastOutcome, "", "",
               [tr EXCEPT !.routed = TRUE, !.entered = st4])

(* Faulty variant: the entry effects are applied on every arrival, also  *)
(* when the player stays on the node                                       *)
enterNodeAlways(e, st, next) ==
    IF next \in DOMAIN e.Story /\ Len(e.Story[next].Effects) > 0
    THEN applyEffects([st EXCEPT !.NodeID = next], e.Story[next].Effects)
    ELSE [st EXCEPT !.NodeID = next]

(* engine.go:208-219: the transition and the destination's entry effects *)
enterNode(e, st, next) ==
    IF next # st.NodeID
       /\ next \in DOMAIN e.Story
       /\ Len(e.Story[next].Effects) > 0
    THEN applyEffects([st EXCEPT !.NodeID = next], e.Story[next].Effects)
    ELSE [st EXCEPT !.NodeID = next]

(* engine.go:204-219: no destination, or the transition *)
transition(e, tr, bt, next) ==
    IF next = ""
    THEN StepResult(bt.st, NoRoll, NoOutcome, "No destination for that choice.", "",
                    [tr EXCEPT !.next = next, !.battle = bt.trace])
    ELSE arrive(e, [tr EXCEPT !.next = next, !.battle = bt.trace], bt,
                enterNode(e, bt.st, next))

(* engine.go:200-202: a choice without a Battle ends the encounter *)
disengage(st, lastRoll, lastOutcome) ==
    [st |-> IF Len(st.Enemies) > 0 THEN [st EXCEPT !.Enemies = <<>>] ELSE st,
     next |-> "", lastRoll |-> lastRoll, lastOutcome |-> lastOutcome,
     trace |-> NoBattleTrace]

(* engine.go:193-199: the battle's destination, when it names one,         *)
(* replaces the one resolved so far                                        *)
resolveBattle(e, tr, ch, next1, bt) ==
    transition(e, tr, bt, IF ch.hasBattle /\ bt.next # "" THEN bt.next ELSE next1)

(* engine.go:178-190: the destination the check result selects *)
checkNext(ch, ok) ==
    IF ~ch.hasCheck THEN ch.Next
    ELSE IF ok THEN (IF ch.OnSuccessNext # "" THEN ch.OnSuccessNext ELSE ch.Next)
    ELSE (IF ch.OnFailureNext # "" THEN ch.OnFailureNext ELSE ch.Next)

(* engine.go:176-202: ok is the result of the check, if there is one *)
afterCheck(e, tr, st1, ch, choiceKey, lastRoll1, lastOutcome1, ok, playerRoll, enemyRoll) ==
    resolveBattle(e, [tr EXCEPT !.checked = ch.hasCheck, !.checkRoll = lastRoll1,
                                !.checkOk = ok],
                  ch, checkNext(ch, ok),
                  IF ch.hasBattle
                  THEN applyBattle(st1, ch, choiceKey, lastRoll1, lastOutcome1,
                                   playerRoll, enemyRoll)
                  ELSE disengage(st1, lastRoll1, lastOutcome1))

(* engine.go:165-191: st1 is the state after the choice's effects, chk the *)
(* result of checkRoll when the choice has a Check                         *)
resolveCheck(e, tr, st1, ch, choiceKey, chk, checkDice, playerRoll, enemyRoll) ==
    IF ch.hasCheck /\ chk.err
    THEN StepResult(st1, NoRoll, NoOutcome, "unsupported check", "", tr)
    ELSE afterCheck(e, tr, st1, ch, choiceKey,
                    IF ch.hasCheck THEN checkDice ELSE NoRoll,
                    IF ~ch.hasCheck THEN NoOutcome
                    ELSE IF chk.ok THEN OutcomeSuccess ELSE OutcomeFailure,
                    ch.hasCheck /\ chk.ok, playerRoll, enemyRoll)

(* engine.go:162-175: the choice's effects, then its check *)
resolveChoice(e, st, ch, ci, st1, choiceKey, checkDice, playerRoll, enemyRoll) ==
    resolveCheck(e, [NoTrace EXCEPT !.from = st, !.key = choiceKey, !.choice = ci,
                                    !.effected = st1],
                 st1, ch, choiceKey, checkRoll(st1, ch.Check, checkDice),
                 checkDice, playerRoll, enemyRoll)

(* engine.go:141-163: ci is the index of the selected choice, 0 for none *)
selectChoice(e, st, node, ci, choiceKey, checkDice, playerRoll, enemyRoll) ==
    IF ci = 0
    THEN StepResult(st, NoRoll, NoOutcome, "That choice doesn't exist.", "",
                    [NoTrace EXCEPT !.from = st, !.key = choiceKey])
    ELSE resolveChoice(e, st, node.Choices[ci], ci,
                       applyEffects(st, node.Choices[ci].Effects),
                       choiceKey, checkDice, playerRoll, enemyRoll)

(* ApplyChoice, engine.go:135-231.  checkDice is the roll2d6() of line     *)
(* 170, playerRoll and enemyRoll those of resolveBattleRound.              *)
ApplyChoice(e, st, choiceKey, checkDice, playerRoll, enemyRoll) ==
    IF UnknownNode(e, st)
    THEN StepResult(0, NoRoll, NoOutcome, "", "unknown node",
                    [NoTrace EXCEPT !.from = st, !.key = choiceKey])
    ELSE selectChoice(e, st, e.Story[st.NodeID],
                      findChoice(e.Story[st.NodeID], choiceKey),
                      choiceKey, checkDice, playerRoll, enemyRoll)

----------------------------------------------------------------------------
(* The story the engine is loaded with.  Its shapes are those of the       *)
(* stories in engine_test.go and README.md: plain and same-node choices,   *)
(* choice and entry effects, stat checks, legacy single-enemy battles      *)
(* with and without routes, a two-enemy battle, a four-enemy battle, a     *)
(* battle that defines no enemy.                                           *)

StdCheck(stat) == Check(stat, "2d6", "stat")

Legacy(name, str, hp, onV, onD) == Battle(<<>>, name, str, hp, onV, onD)

StartNode ==
    Node(<<WithEffects(Choice("train", "start"), <<Effect(OpAdd, StatStrength, 5)>>),
           Choice("descend", "cave"),
           WithBattle(Choice("ghost", ""), "", Battle(<<>>, "", 5, 0, "victory", ""))>>,
         <<Effect(OpAdd, StatHealth, -1)>>)

CaveNode ==
    Node(<<Choice("go", "forest"),
           Choice("east", "duel"),
           WithEffects(Choice("west", "horde"),
                       <<WithMin(Effect(OpAdd, StatStrength, -11), -2)>>),
           WithEffects(Choice("north", "bridge"), <<Effect(OpAdd, StatLuck, -5)>>),
           WithEffects(Choice("hurt", ""), <<Effect(OpAdd, StatHealth, -4)>>),
           WithCheck(Choice("leap", ""), StdCheck(StatLuck), "weak", ""),
           WithCheck(Choice("pray", "horde"), StdCheck(StatStrength), "", "pit"),
           WithCheck(Choice("odd", "forest"), Check(StatLuck, "1d6", "stat"), "", "")>>,
         <<Effect(OpAdd, StatHealth, -10), Effect(OpAdd, StatLuck, -5)>>)

ForestNode ==
    Node(<<WithBattle(Choice("battle", "camp"), "",
                      Battle(<<Enemy("Goblin", 8, 2), Enemy("Orc", 10, 1)>>,
                             "", 0, 0, "victory", "defeat")),
           Choice("sneak", "weak"),
           WithCheck(Choice("mumble", "weak"), Check(StatLuck, "1d6", "stat"), "", "")>>,
         <<>>)

WeakNode ==
    Node(<<WithBattle(Choice("attack", ""), "battle_attack",
                      Legacy("Weakling", 1, 1, "victory", ""))>>,
         <<>>)

DuelNode ==
    Node(<<WithBattle(Choice("attack", ""), "battle_attack",
                      Legacy("Goblin", 8, 3, "victory", "defeat")),
           WithBattle(Choice("luck", "camp"), "battle_luck",
                      Legacy("Goblin", 8, 3, "", "")),
           WithEffects(
             WithBattle(Choice("stab", ""), "battle_attack",
                        Legacy("Goblin", 8, 3, "victory", "")),
             <<Effect(OpAdd, StatHealth, -1)>>)>>,
         <<Effect(OpAdd, StatStrength, 1)>>)

HordeNode ==
    Node(<<WithEffects(
             WithBattle(Choice("battle", "camp"), "",
                        Battle(<<Enemy("A", 5, 2), Enemy("B", 6, 0),
                                 Enemy("C", 7, 1), Enemy("D", 8, 1)>>,
                               "", 0, 0, "victory", "defeat")),
             <<Effect(OpAdd, StatHealth, -1)>>)>>,
         <<>>)

BridgeNode ==
    Node(<<WithCheck(
             WithBattle(Choice("cross", ""), "",
                        Legacy("Troll", 9, 1, "", "defeat")),
             StdCheck(StatStrength), "victory", "pit")>>,
         <<>>)

PitNode == Node(<<Choice("climb", "camp")>>, <<Effect(OpAdd, StatHealth, -999)>>)

VictoryNode == Node(<<>>, <<WithMax(Effect(OpAdd, StatLuck, 1), 12)>>)

EndingNode == Node(<<>>, <<>>)

Story(death) ==
    LET nodes == ("start" :> StartNode) @@ ("cave" :> CaveNode)
                 @@ ("forest" :> ForestNode)
                 @@ ("weak" :> WeakNode) @@ ("duel" :> DuelNode)
                 @@ ("horde" :> HordeNode) @@ ("bridge" :> BridgeNode)
                 @@ ("pit" :> PitNode) @@ ("victory" :> VictoryNode)
                 @@ ("camp" :> EndingNode) @@ ("defeat" :> EndingNode)
    IN  IF death THEN nodes @@ (DeathNodeID :> EndingNode) ELSE nodes


----------------------------------------------------------------------------
(* The keys a client submits on a node: every key of the node, for each    *)
(* battle choice its dynamic keys (well-formed and malformed), and a key   *)
(* that names no choice.                                                   *)

BattleSuffixes ==
    {<<"run">>, <<"dance">>, <<"attack">>, <<"attack", "x">>, <<"luck", "-1">>}
    \cup {<<a, i>> : a \in {"attack", "luck"}, i \in {"0", "1", "2"}}

KeysOf(node) ==
    {<<node.Choices[i].Key>> : i \in 1..Len(node.Choices)}
    \cup {<<node.Choices[i].Key, "run">> : i \in 1..Len(node.Choices)}
    \cup {<<node.Choices[i].Key>> \o sfx :
             i \in {j \in 1..Len(node.Choices) : node.Choices[j].hasBattle},
             sfx \in BattleSuffixes}

Inputs(e, st) ==
    {<<"nope">>} \cup (IF UnknownNode(e, st) THEN {} ELSE KeysOf(e.Story[st.NodeID]))

----------------------------------------------------------------------------
(* The session: handlePlay (unnamed/part_011:44-80) gets the state, runs   *)
(* ApplyChoice, puts res.State back unless ApplyChoice failed, and renders *)
(* the StepResult.                                                         *)

NoResult == StepResult(0, NoRoll, NoOutcome, "", "", NoTrace)

NoProbe == [fn |-> "none"]

Init ==
    /\ hasDeath \in BOOLEAN
    /\ player = NewPlayer("start")
    /\ res = NoResult
    /\ pc = "idle"
    /\ probe = NoProbe

(* The rolls a call takes: one roll2d6() for a check (engine.go:170), two  *)
(* for a battle round (319-320), none otherwise; tr is the trace of the    *)
(* same call made with arbitrary dice                                      *)
Rolls(tr) ==
    (IF tr.checked THEN roll2d6 ELSE {NoRoll})
    \X (IF tr.battle.fought THEN roll2d6 ELSE {NoRoll})
    \X (IF tr.battle.fought THEN roll2d6 ELSE {NoRoll})

(* part_011:58-72: Store.Put(res.State) unless ApplyChoice failed *)
Put(r) ==
    /\ res' = r
    /\ player' = IF r.err = "" THEN r.State ELSE player

(* POST /play up to Store.Put *)
Play ==
    /\ pc = "idle"
    /\ \E choiceKey \in Inputs(Engine(Story(hasDeath)), player) :
         \E d \in Rolls(ApplyChoice(Engine(Story(hasDeath)), player, choiceKey,
                                    2, 2, 2).trace) :
            Put(ApplyChoice(Engine(Story(hasDeath)), player, choiceKey,
                            d[1], d[2], d[3]))
    /\ pc' = "returned"
    /\ UNCHANGED <<hasDeath, probe>>

(* The response is rendered and the StepResult dropped *)
Respond ==
    /\ pc = "returned"
    /\ res' = NoResult
    /\ pc' = "idle"
    /\ UNCHANGED <<player, hasDeath, probe>>

Next == Play \/ Respond

Spec == Init /\ [][Next]_vars

----------------------------------------------------------------------------
(* The pure functions on their own.  probe holds the input and, once the   *)
(* function was applied, its output.                                       *)

Idle == /\ player = NewPlayer("start")
        /\ res = NoResult
        /\ pc = "probe"
        /\ hasDeath = FALSE

(* Effects a story can carry: every stat (and a stat the engine does not   *)
(* know), deltas in both directions, story clamps absent, inside, outside  *)
(* and contradicting the global bounds, and an Op other than "add".        *)
EffectPool ==
    LET plain == {Effect(OpAdd, stat, v) :
                     stat \in {StatStrength, StatLuck, StatHealth, "mana"},
                     v \in {-20, 5}}
    IN  plain
        \cup {WithMax(ef, 12) : ef \in plain}
        \cup {WithMin(ef, 1) : ef \in plain}
        \cup {WithMin(WithMax(ef, 20), 15) : ef \in plain}
        \cup {WithMin(WithMax(ef, 3), -4) : ef \in plain}
        \cup {Effect("set", StatHealth, 5)}

RECURSIVE SeqsUpTo(_, _)
SeqsUpTo(S, n) ==
    IF n = 0 THEN {<<>>}
    ELSE LET shorter == SeqsUpTo(S, n - 1)
         IN  shorter \cup {Append(q, x) : q \in shorter, x \in S}

InitEffects ==
    /\ Idle
    /\ probe \in {[fn |-> "applyEffects", done |-> FALSE,
                   st |-> PlayerState("start", Stats(s, l, h), <<>>),
                   effs |-> effs, out |-> 0] :
                     s \in {1, 12}, l \in {7}, h \in {0, 3},
                     effs \in SeqsUpTo(EffectPool, MaxEffects)}

(* applyEffects(st, effs), engine.go:393-426 *)
RunEffects ==
    /\ probe.fn = "applyEffects" /\ ~probe.done
    /\ probe' = [probe EXCEPT !.done = TRUE, !.out = applyEffects(probe.st, probe.effs)]
    /\ UNCHANGED <<player, res, pc, hasDeath>>

NextEffects == RunEffects

SpecEffects == InitEffects /\ [][NextEffects]_vars

(* Enemy definitions of a Battle: negative, zero and positive strengths    *)
(* and healths; the legacy fields are tried when the list is empty.        *)
EnemyPool ==
    {Enemy("A", -3, 0), Enemy("B", 1, 2), Enemy("C", 6, -1),
     Enemy("D", 10, 3), Enemy("E", 7, 1)}

BattlePool ==
    {Battle(es, "", 0, 0, "victory", "defeat") :
        es \in SeqsUpTo(EnemyPool, MaxEnemies) \ {<<>>}}
    \cup {Battle(<<>>, n, 4, h, "victory", "defeat") :
            n \in {"", "Rat"}, h \in {-2, 0, 3}}

InitEnemies ==
    /\ Idle
    /\ probe \in {[fn |-> "materialize", done |-> FALSE, battle |-> b, out |-> <<>>] :
                     b \in BattlePool}

(* First invocation of a battle choice, engine.go:237-238 *)
Materialize ==
    /\ probe.fn = "materialize" /\ ~probe.done
    /\ probe' = [probe EXCEPT !.done = TRUE,
                              !.out = collapseToHorde(getBattleEnemies(probe.battle))]
    /\ UNCHANGED <<player, res, pc, hasDeath>>

NextEnemies == Materialize

SpecEnemies == InitEnemies /\ [][NextEnemies]_vars

----------------------------------------------------------------------------
(* Properties.  T is the trace of the call whose result is being returned, *)
(* B the trace of its applyBattle call, Ch the choice it selected.         *)

Returned == pc = "returned" /\ res.err = ""

T == res.trace

B == res.trace.battle

Ch == Story(hasDeath)[T.from.NodeID].Choices[T.choice]

Selected == Returned /\ T.choice # 0

InBounds(stats) ==
    /\ stats.Strength >= 1 /\ stats.Strength <= 12
    /\ stats.Luck >= 1 /\ stats.Luck <= 12
    /\ stats.Health >= 0

(* C1: Strength and Luck stay within [1,12] and Health stays >= 0 in the   *)
(* session's state, in every returned state, and after every effect        *)
(* application and battle round inside a call.                             *)
C1_StatsStayInBounds ==
    /\ InBounds(player.Stats)
    /\ Returned => InBounds(res.State.Stats)
    /\ Selected => InBounds(T.effected.Stats)
    /\ Returned /\ B.fought => InBounds(B.armed.Stats) /\ InBounds(B.round.st.Stats)
    /\ Returned /\ T.routed => InBounds(T.entered.Stats)

(* A call whose effect would have taken Strength above 12, a luck action   *)
(* at Luck 1 and a lost round at Health 1 all occur; this one is a +5      *)
(* strength effect applied at Strength 12.                                 *)
C1_Witness ==
    /\ Selected /\ T.key = <<"train">>
    /\ T.from.Stats.Strength = 12
    /\ res.State.Stats.Strength = 12

(* C2: when a call resolves a destination and Health after choice         *)
(* effects, battle round and entry effects is <= 0, Health is 0 in the     *)
(* result and, if the story has a "death" node, NodeID is "death".         *)
C2_DeathRouting ==
    (Returned /\ T.routed /\ T.entered.Stats.Health <= 0)
        => /\ res.State.Stats.Health = 0
           /\ (DeathNodeID \in DOMAIN Story(hasDeath)) => res.State.NodeID = DeathNodeID

(* A successful check whose destination has a lethal entry effect ends on  *)
(* "death" instead of the computed destination                             *)
C2_Witness ==
    /\ Returned /\ T.routed /\ hasDeath
    /\ T.entered.Stats.Health <= 0
    /\ T.next \notin {DeathNodeID, T.from.NodeID}
    /\ res.State.NodeID = DeathNodeID

(* The quantities of the round of the returned call *)
Target == B.armed.Enemies[B.index + 1]

PlayerTotal == B.armed.Stats.Strength + B.playerRoll

EnemyTotal == Target.Strength + B.enemyRoll

ClaimedDamage == IF B.isLuck THEN 2 ELSE 1

(* C3: in one attack/luck round, if playerTotal > enemyTotal only the      *)
(* targeted enemy loses health (1 for attack, 2 for luck, floored at 0),   *)
(* with outcome victory at 0 and player_hit otherwise; if enemyTotal >     *)
(* playerTotal only the player loses exactly 1 Health (floored at 0), with *)
(* outcome defeat at 0 and enemy_hit otherwise; on equal totals nobody is  *)
(* damaged and the outcome is tie.  Never both sides in one round.         *)
C3_OneSideDamaged ==
    (Returned /\ B.fought) =>
        LET p0 == B.armed.Stats.Health
            p1 == B.round.st.Stats.Health
            e0 == Target.Health
            e1 == B.round.newEnemyHealth
            out == B.round.outcome
        IN  /\ PlayerTotal > EnemyTotal =>
                 /\ e1 = Max2(0, e0 - ClaimedDamage)
                 /\ p1 = p0
                 /\ out = IF e1 = 0 THEN OutcomeVictory ELSE OutcomePlayerHit
            /\ EnemyTotal > PlayerTotal =>
                 /\ p1 = Max2(0, p0 - 1)
                 /\ e1 = e0
                 /\ out = IF p1 = 0 THEN OutcomeDefeat ELSE OutcomeEnemyHit
            /\ PlayerTotal = EnemyTotal =>
                 /\ p1 = p0 /\ e1 = e0 /\ out = OutcomeTie
            /\ ~(p1 < p0 /\ e1 < e0)
            /\ B.round.st = [B.armed EXCEPT !.Stats.Health = p1]
            /\ T.routed => res.LastOutcome = out

(* A tie between unequal strengths: nobody is damaged *)
C3_Witness ==
    /\ Returned /\ B.fought
    /\ PlayerTotal = EnemyTotal
    /\ B.playerRoll # B.enemyRoll
    /\ B.round.outcome = OutcomeTie

RunCall ==
    /\ Selected /\ Ch.hasBattle
    /\ T.key = <<Ch.Key, "run">>

NoLuckEffect(effs) == \A i \in 1..Len(effs) : effs[i].Stat # StatLuck

(* C6: each valid luck action lowers Luck by exactly 1 when Luck > 1 and   *)
(* leaves it at 1 when Luck = 1, whatever the round's outcome; Luck is     *)
(* never below 1.                                                          *)
C6_LuckFloor ==
    /\ player.Stats.Luck >= 1
    /\ (Returned /\ B.fought /\ B.isLuck) =>
         LET before == B.entry.Stats.Luck
             after == IF before > 1 THEN before - 1 ELSE 1
         IN  /\ B.armed.Stats.Luck = after
             /\ B.round.st.Stats.Luck = after
             /\ B.settled.Stats.Luck = after
             /\ (NoLuckEffect(Ch.Effects) /\ res.State.NodeID = T.from.NodeID) =>
                  /\ before = T.from.Stats.Luck
                  /\ res.State.Stats.Luck = after

(* A luck action at Luck 1 in a round the player loses *)
C6_Witness ==
    /\ Returned /\ B.fought /\ B.isLuck
    /\ T.from.Stats.Luck = 1
    /\ B.round.outcome = OutcomeEnemyHit
    /\ res.State.Stats.Luck = 1

(* C8: Strength 12 against a single enemy of Strength 1 and Health 1: an   *)
(* attack on index 0 is a player win for every pair of rolls; the enemy's  *)
(* Health becomes 0, Enemies becomes empty and NodeID the OnVictoryNext.   *)
C8_SureVictory ==
    (/\ Returned /\ B.fought /\ ~B.isLuck /\ B.index = 0
     /\ B.armed.Stats.Strength = 12
     /\ Len(B.armed.Enemies) = 1
     /\ Target.Strength = 1 /\ Target.Health = 1)
    => /\ PlayerTotal > EnemyTotal
       /\ B.round.outcome = OutcomeVictory
       /\ B.round.newEnemyHealth = 0
       /\ res.State.Enemies = <<>>
       /\ Ch.Battle.OnVictoryNext = "victory"
       /\ res.State.NodeID = Ch.Battle.OnVictoryNext

(* The closest rolls: the player rolls 2, the enemy 12 *)
C8_Witness ==
    /\ Returned /\ B.fought /\ ~B.isLuck /\ B.index = 0
    /\ B.armed.Stats.Strength = 12
    /\ B.armed.Enemies = <<EnemyState("Weakling", 1, 1)>>
    /\ B.playerRoll = 2 /\ B.enemyRoll = 12
    /\ res.State.NodeID = "victory"

(* The route a check result selects *)
CheckRoute(ch, ok) ==
    IF ok /\ ch.OnSuccessNext # "" THEN ch.OnSuccessNext
    ELSE IF ~ok /\ ch.OnFailureNext # "" THEN ch.OnFailureNext
    ELSE ch.Next

StatValue(stats, stat) ==
    CASE stat = "strength" -> stats.Strength
      [] stat = "luck" -> stats.Luck
      [] stat = "health" -> stats.Health

----------------------------------------------------------------------------
(* Properties of the pure functions *)

(* The enemies a Battle defines: its list or, when that is empty, its      *)
(* legacy single enemy                                                     *)
Defined(b) ==
    IF Len(b.Enemies) > 0 THEN b.Enemies
    ELSE IF b.EnemyName # "" \/ b.EnemyHealth > 0
         THEN <<Enemy(b.EnemyName, b.EnemyStrength, b.EnemyHealth)>>
         ELSE <<>>

Raised(h) == IF h <= 0 THEN 1 ELSE h

RECURSIVE RaisedHealthSum(_)
RaisedHealthSum(ds) ==
    IF ds = <<>> THEN 0 ELSE Raised(Head(ds).Health) + RaisedHealthSum(Tail(ds))

RECURSIVE StrengthSum(_)
StrengthSum(ds) == IF ds = <<>> THEN 0 ELSE Head(ds).Strength + StrengthSum(Tail(ds))

(* m is the floor of total / n *)
IsFloorMean(m, total, n) == n * m <= total /\ total < n * (m + 1)

(* C7: on first invocation each defined enemy becomes an EnemyState in     *)
(* definition order with non-positive health raised to 1; more than 3 are  *)
(* replaced by one "Horde" whose Health is the sum of the raised healths   *)
(* and whose Strength is the floored mean strength, raised to 1 if lower;  *)
(* 3 or fewer are kept as they are.                                        *)
C7_Materialization ==
    (probe.fn = "materialize" /\ probe.done) =>
        LET ds == Defined(probe.battle)
            n == Len(ds)
            out == probe.out
        IN  IF n <= 3
            THEN /\ Len(out) = n
                 /\ \A i \in 1..n :
                       out[i] = [Name |-> ds[i].Name, Strength |-> ds[i].Strength,
                                 Health |-> Raised(ds[i].Health)]
            ELSE /\ Len(out) = 1
                 /\ out[1].Name = "Horde"
                 /\ out[1].Health = RaisedHealthSum(ds)
                 /\ \E m \in -20..20 :
                       /\ IsFloorMean(m, StrengthSum(ds), n)
                       /\ out[1].Strength = IF m < 1 THEN 1 ELSE m

(* Four enemies, one of them with non-positive health, whose mean strength *)
(* is not an integer                                                       *)
C7_Witness ==
    /\ probe.fn = "materialize" /\ probe.done
    /\ Len(probe.battle.Enemies) = 4
    /\ \E i \in 1..4 : probe.battle.Enemies[i].Health <= 0
    /\ StrengthSum(probe.battle.Enemies) % 4 # 0
    /\ StrengthSum(probe.battle.Enemies) > 4
    /\ Len(probe.out) = 1 /\ probe.out[1].Name = "Horde"

(* E: the effect's own ClampMax, then its ClampMin, when present *)
OwnClamp(ef, x) ==
    LET a == IF ef.hasMax THEN Min2(x, ef.ClampMax) ELSE x
    IN  IF ef.hasMin THEN Max2(a, ef.ClampMin) ELSE a

(* G: [1,12] for strength and luck, at least 0 for health *)
GlobalClamp(stat, x) ==
    IF stat \in {"strength", "luck"} THEN Max2(1, Min2(12, x)) ELSE Max2(0, x)

ClaimedEffect(stats, ef) ==
    IF ef.Op # "add" THEN stats
    ELSE CASE ef.Stat = "strength" ->
                [stats EXCEPT !.Strength = GlobalClamp("strength", OwnClamp(ef, @ + ef.Value))]
           [] ef.Stat = "luck" ->
                [stats EXCEPT !.Luck = GlobalClamp("luck", OwnClamp(ef, @ + ef.Value))]
           [] ef.Stat = "health" ->
                [stats EXCEPT !.Health = GlobalClamp("health", OwnClamp(ef, @ + ef.Value))]
           [] OTHER -> stats

RECURSIVE ClaimedEffects(_, _)
ClaimedEffects(stats, effs) ==
    IF effs = <<>> THEN stats
    ELSE ClaimedEffects(ClaimedEffect(stats, Head(effs)), Tail(effs))

(* C9: for each "add" effect, in list order, applyEffects sets the named   *)
(* stat to G(E(current + Value)); the global clamp is applied last and     *)
(* wins; each effect sees the result of the previous one.                  *)
C9_DoubleClamp ==
    (probe.fn = "applyEffects" /\ probe.done) =>
        /\ probe.out.Stats = ClaimedEffects(probe.st.Stats, probe.effs)
        /\ probe.out.NodeID = probe.st.NodeID
        /\ probe.out.Enemies = probe.st.Enemies

(* A story clamp above the global maximum loses to it, and the next effect *)
(* on the same stat starts from the clamped value                          *)
C9_Witness ==
    /\ probe.fn = "applyEffects" /\ probe.done
    /\ Len(probe.effs) = 2
    /\ probe.effs[1] = WithMin(WithMax(Effect(OpAdd, StatStrength, 5), 20), 15)
    /\ probe.effs[2] = WithMin(WithMax(Effect(OpAdd, StatStrength, -20), 3), -4)
    /\ probe.st.Stats.Strength = 1
    /\ probe.out.Stats.Strength = 1

----------------------------------------------------------------------------
(* Failure semantics *)

(* The call selected a choice whose Check is malformed *)
MalformedCheckCall ==
    /\ pc = "returned" /\ T.choice # 0
    /\ Ch.hasCheck
    /\ (Ch.Check.Roll # "2d6" \/ Ch.Check.Target # "stat")

(* C11: resolving a choice whose Check has a Roll other than "2d6" or a    *)
(* Target other than "stat" is a hard error: ApplyChoice returns a non-nil *)
(* error rather than a normal result carrying a message.                   *)
C11_MalformedCheckIsHardError ==
    MalformedCheckCall => res.err # ""

(* The call ended in the no-destination soft failure *)
NoDestinationCall ==
    /\ pc = "returned"
    /\ res.ErrorMessage = "No destination for that choice."

(* C12: when ApplyChoice ends with no destination it returns the message   *)
(* "No destination for that choice." with no error and a state equal to    *)
(* the input state: stats, Enemies and NodeID unchanged, even when the     *)
(* choice carries Effects or a Battle.                                     *)
C12_NoDestinationKeepsState ==
    NoDestinationCall =>
        /\ res.err = ""
        /\ res.State.Stats = T.from.Stats
        /\ res.State.Enemies = T.from.Enemies
        /\ res.State.NodeID = T.from.NodeID

(* The key matches no choice of the node the call started on: it is no     *)
(* choice's key, and no "<key>" or "<key>:..." of a choice with a Battle   *)
MatchesNoChoice ==
    /\ pc = "returned" /\ res.err = ""
    /\ \A i \in 1..Len(Story(hasDeath)[T.from.NodeID].Choices) :
          LET c == Story(hasDeath)[T.from.NodeID].Choices[i]
          IN  /\ T.key # <<c.Key>>
              /\ ~(c.hasBattle /\ Len(T.key) >= 2 /\ T.key[1] = c.Key)

(* C13: when the key matches no choice of the current node, ApplyChoice    *)
(* returns no error, the message "That choice doesn't exist." and a state  *)
(* identical to the input state: no effects, no dice, NodeID and Enemies   *)
(* unchanged; and only then.                                               *)
C13_UnknownChoiceKeepsState ==
    /\ MatchesNoChoice =>
         /\ res.ErrorMessage = "That choice doesn't exist."
         /\ res.State = T.from
         /\ player = T.from
         /\ res.LastRoll = NoRoll /\ res.LastOutcome = NoOutcome
         /\ ~T.checked /\ ~B.called
    /\ (pc = "returned" /\ res.ErrorMessage = "That choice doesn't exist.")
         => MatchesNoChoice

(* "<key>:run" for a choice without a Battle, submitted during an          *)
(* encounter: nothing changes, the enemies stay                            *)
C13_Witness ==
    /\ MatchesNoChoice
    /\ T.key = <<"sneak", "run">>
    /\ Len(T.from.Enemies) = 2
    /\ res.State = T.from
    /\ res.ErrorMessage = "That choice doesn't exist."


----------------------------------------------------------------------------
(* Prompt choices.  types.go declares Prompt and Answer; the resolver and  *)
(* the prompt branch of ApplyChoiceWithAnswer follow spec.md 4.4 and 4.6.  *)
(* A typed answer is a sequence of characters.                             *)

Letters == {"a"}
Capitals == {"A"}
Spaces == {" "}
Punctuation == {"!"}
Chars == Letters \cup Capitals \cup Spaces \cup Punctuation

(* types.go: Answer{Match, Matches, Next}; an unset Match is "" *)
Answer(match, matches, next) == [Match |-> match, Matches |-> matches, Next |-> next]

(* types.go: Prompt{Question, Answers, DefaultNext, FailureMessage} *)
Prompt(answers, defaultNext, failureMessage) ==
    [Answers |-> answers, DefaultNext |-> defaultNext,
     FailureMessage |-> failureMessage]

(* types.go: Choice.Prompt is a pointer, nil on a choice without prompt *)
WithPrompt(ch, p) ==
    [f \in DOMAIN ch \cup {"Prompt"} |-> IF f = "Prompt" THEN p ELSE ch[f]]

hasPrompt(ch) == "Prompt" \in DOMAIN ch

(* spec.md 4.4 step 1: lowercase *)
toLower(s) == [i \in 1..Len(s) |-> IF s[i] \in Capitals THEN "a" ELSE s[i]]

isKept(c) == c \in Letters \cup Capitals \cup Spaces

(* spec.md 4.4 step 1: strip what is not a letter, digit or whitespace *)
stripPunctuation(s) == SelectSeq(s, isKept)

RECURSIVE trimLeft(_)
trimLeft(s) ==
    IF s # <<>> /\ Head(s) \in Spaces THEN trimLeft(Tail(s)) ELSE s

(* spec.md 4.4 step 1: collapse whitespace runs and trim *)
RECURSIVE collapseSpaces(_)
collapseSpaces(s) ==
    IF s = <<>> THEN <<>>
    ELSE IF Head(s) \in Spaces
         THEN IF trimLeft(Tail(s)) = <<>> THEN <<>>
              ELSE <<" ">> \o collapseSpaces(trimLeft(Tail(s)))
         ELSE <<Head(s)>> \o collapseSpaces(Tail(s))

(* Faulty variant: whitespace is collapsed before punctuation is stripped *)
normalizeAnswerCollapseFirst(s) ==
    stripPunctuation(collapseSpaces(trimLeft(toLower(s))))

(* spec.md 4.4 step 1 *)
normalizeAnswer(s) == collapseSpaces(trimLeft(stripPunctuation(toLower(s))))

(* spec.md 4.4 step 3: Match, when set, and every entry of Matches *)
answerMatches(a, input) ==
    \/ a.Match # <<>> /\ normalizeAnswer(a.Match) = input
    \/ \E i \in 1..Len(a.Matches) : normalizeAnswer(a.Matches[i]) = input

promptFailure(prompt, message) ==
    [next |-> "",
     msg |-> IF prompt.FailureMessage # "" THEN prompt.FailureMessage ELSE message]

(* spec.md 4.4 step 4 *)
promptNoMatch(prompt, fallbackNext) ==
    IF prompt.DefaultNext # "" THEN [next |-> prompt.DefaultNext, msg |-> ""]
    ELSE IF fallbackNext # "" THEN [next |-> fallbackNext, msg |-> ""]
    ELSE promptFailure(prompt, "That does not seem right.")

(* spec.md 4.4 steps 3 and 4 on the normalized input *)
promptRoute(prompt, input, fallbackNext, hit) ==
    IF hit # 0 THEN [next |-> prompt.Answers[hit].Next, msg |-> ""]
    ELSE promptNoMatch(prompt, fallbackNext)

(* Faulty variant: the last matching Answer wins *)
resolvePromptNextLastMatch(prompt, answer, fallbackNext) ==
    IF normalizeAnswer(answer) = <<>>
    THEN promptFailure(prompt, "Please enter an answer.")
    ELSE promptRoute(prompt, normalizeAnswer(answer), fallbackNext,
             LET hits == {i \in 1..Len(prompt.Answers) :
                             answerMatches(prompt.Answers[i], normalizeAnswer(answer))}
             IN  IF hits = {} THEN 0 ELSE CHOOSE i \in hits : \A j \in hits : j <= i)

(* resolvePromptNext, spec.md 4.4 *)
resolvePromptNext(prompt, answer, fallbackNext) ==
    IF normalizeAnswer(answer) = <<>>
    THEN promptFailure(prompt, "Please enter an answer.")
    ELSE promptRoute(prompt, normalizeAnswer(answer), fallbackNext,
             FirstIndex([i \in 1..Len(prompt.Answers) |->
                 answerMatches(prompt.Answers[i], normalizeAnswer(answer))]))

(* Faulty variant: the Effects of the choice are applied before the        *)
(* answer is judged                                                        *)
answerPromptEffectsFirst(e, tr, st, ch, r) ==
    IF r.next = ""
    THEN StepResult(applyEffects(st, ch.Effects), NoRoll, NoOutcome, r.msg, "", tr)
    ELSE transition(e, [tr EXCEPT !.effected = applyEffects(st, ch.Effects)],
                    disengage(applyEffects(st, ch.Effects), NoRoll, NoOutcome),
                    r.next)

(* spec.md 4.6 step 3, Prompt present: a failure returns the state as it   *)
(* was; a success applies Effects and goes on to steps 4-8                 *)
answerPrompt(e, tr, st, ch, r) ==
    IF r.next = ""
    THEN StepResult(st, NoRoll, NoOutcome, r.msg, "", tr)
    ELSE transition(e, [tr EXCEPT !.effected = applyEffects(st, ch.Effects)],
                    disengage(applyEffects(st, ch.Effects), NoRoll, NoOutcome),
                    r.next)

selectAnswered(e, st, node, ci, choiceKey, answer, checkDice, playerRoll, enemyRoll) ==
    IF ci # 0 /\ hasPrompt(node.Choices[ci])
    THEN answerPrompt(e, [NoTrace EXCEPT !.from = st, !.key = choiceKey,
                                         !.choice = ci],
                      st, node.Choices[ci],
                      resolvePromptNext(node.Choices[ci].Prompt, answer,
                                        node.Choices[ci].Next))
    ELSE selectChoice(e, st, node, ci, choiceKey, checkDice, playerRoll, enemyRoll)

(* ApplyChoiceWithAnswer, spec.md 4.6 *)
ApplyChoiceWithAnswer(e, st, choiceKey, answer, checkDice, playerRoll, enemyRoll) ==
    IF UnknownNode(e, st)
    THEN StepResult(0, NoRoll, NoOutcome, "", "unknown node",
                    [NoTrace EXCEPT !.from = st, !.key = choiceKey])
    ELSE selectAnswered(e, st, e.Story[st.NodeID],
                        findChoice(e.Story[st.NodeID], choiceKey),
                        choiceKey, answer, checkDice, playerRoll, enemyRoll)

(* The stories of TestApplyChoiceWithAnswer_*: one node whose only choice  *)
(* asks a question, and the nodes its answers lead to                      *)
PromptStory(ch) ==
    [n \in {"riddle", "right", "wrong", "other", "fall"} |->
        IF n = "riddle" THEN Node(<<ch>>, <<>>) ELSE EndingNode]

AnswerPool ==
    { Answer(<<"A", "!">>, <<>>, "right"),
      Answer(<<>>, << <<"a">>, <<"a", " ", " ", "a">> >>, "wrong"),
      Answer(<<"a", " ", "a">>, <<>>, "other") }

PromptPool ==
    { Prompt(as, d, m) : as \in SeqsUpTo(AnswerPool, MaxAnswers),
                         d \in {"", "wrong"}, m \in {"", "Try again."} }

PromptChoices ==
    { WithPrompt(WithEffects(Choice("answer", n),
                             <<Effect("add", "health", -1)>>), p) :
        n \in {"", "fall"}, p \in PromptPool }

TypedAnswers == SeqsUpTo(Chars, MaxAnswerLen)

InitPrompt ==
    /\ Idle
    /\ \E ch \in PromptChoices, answer \in TypedAnswers :
          probe = [fn |-> "prompt", done |-> FALSE, ch |-> ch, answer |-> answer,
                   st |-> NewPlayer("riddle"), out |-> NoResult]

RunPrompt ==
    /\ probe.fn = "prompt" /\ ~probe.done
    /\ probe' = [probe EXCEPT !.done = TRUE,
                   !.out = ApplyChoiceWithAnswer(Engine(PromptStory(probe.ch)),
                               probe.st, <<"answer">>, probe.answer, 2, 2, 2)]
    /\ UNCHANGED <<player, res, pc, hasDeath>>

NextPrompt == RunPrompt

SpecPrompt == InitPrompt /\ [][NextPrompt]_vars


----------------------------------------------------------------------------
(* Properties of prompt choices *)

PromptCall == probe.fn = "prompt" /\ probe.done

(* The normal form of a text, read off in one pass: the kept characters    *)
(* in lower case, one blank between two words                              *)
RECURSIVE NormFrom(_, _, _)
NormFrom(s, out, gap) ==
    IF s = <<>> THEN out
    ELSE IF Head(s) = " " THEN NormFrom(Tail(s), out, TRUE)
    ELSE IF Head(s) = "!" THEN NormFrom(Tail(s), out, gap)
    ELSE NormFrom(Tail(s),
                  out \o (IF gap /\ out # <<>> THEN <<" ">> ELSE <<>>) \o <<"a">>,
                  FALSE)

Normal(s) == NormFrom(s, <<>>, FALSE)

Typed == Normal(probe.answer)

Matching(i) ==
    LET a == probe.ch.Prompt.Answers[i]
    IN  \E m \in ({a.Match} \ {<<>>}) \cup {a.Matches[k] : k \in 1..Len(a.Matches)} :
            Normal(m) = Typed

NoAnswerMatches == \A i \in 1..Len(probe.ch.Prompt.Answers) : ~Matching(i)

PromptFailed ==
    /\ probe.out.err = ""
    /\ probe.out.ErrorMessage # ""
    /\ probe.out.State = probe.st

PromptRoutedTo(n) ==
    /\ probe.out.err = ""
    /\ probe.out.ErrorMessage = ""
    /\ probe.out.trace.next = n
    /\ probe.out.State.NodeID = n

(* C14: a Prompt choice answered with a text that is empty after           *)
(* normalization, or with a text that matches no Answer while neither      *)
(* DefaultNext nor a fallback Next exists, returns a failure message, no   *)
(* error, and the state it was given: same NodeID, Effects not applied     *)
C14_PromptFailureKeepsState ==
    ( /\ PromptCall
      /\ \/ Typed = <<>>
         \/ /\ NoAnswerMatches
            /\ probe.ch.Prompt.DefaultNext = ""
            /\ probe.ch.Next = "" )
    => PromptFailed

C14_Witness ==
    /\ PromptCall
    /\ Typed = <<>> /\ probe.answer # <<>>
    /\ probe.ch.Prompt.DefaultNext # "" /\ probe.ch.Next # ""
    /\ probe.ch.Effects # <<>>
    /\ probe.out.ErrorMessage = "Please enter an answer."
    /\ probe.out.State.Stats.Health = probe.st.Stats.Health

ClaimedRoute ==
    IF ~NoAnswerMatches
    THEN PromptRoutedTo(probe.ch.Prompt.Answers[
             CHOOSE i \in 1..Len(probe.ch.Prompt.Answers) :
                 Matching(i) /\ \A j \in 1..(i - 1) : ~Matching(j)].Next)
    ELSE IF probe.ch.Prompt.DefaultNext # ""
    THEN PromptRoutedTo(probe.ch.Prompt.DefaultNext)
    ELSE IF probe.ch.Next # ""
    THEN PromptRoutedTo(probe.ch.Next)
    ELSE PromptFailed

(* C15 as stated: whatever is typed, the first matching Answer decides,    *)
(* then DefaultNext, then the fallback Next, then failure                  *)
C15_FirstMatchAnyInput == PromptCall => ClaimedRoute

(* C15: for a text that is not empty after normalization, the first        *)
(* Answer in prompt order one of whose Match/Matches equals the text after *)
(* normalization decides the destination; with no such Answer DefaultNext  *)
(* does, else the fallback Next, else the call fails; a text that is empty *)
(* after normalization is a failure                                        *)
C15_FirstMatch ==
    PromptCall => IF Typed = <<>> THEN PromptFailed ELSE ClaimedRoute

C15_Witness ==
    /\ PromptCall
    /\ Len(probe.ch.Prompt.Answers) = 2
    /\ Matching(1) /\ Matching(2)
    /\ probe.ch.Prompt.Answers[1].Next # probe.ch.Prompt.Answers[2].Next
    /\ probe.answer # Typed
    /\ probe.out.State.NodeID = probe.ch.Prompt.Answers[1].Next


----------------------------------------------------------------------------
(* The visited-node history.  types.go declares PlayerState.VisitedNodes;  *)
(* the engine that fills it follows spec.md 4.6 steps 5 and 7.  The list   *)
(* is kept beside the session: probe.nodes is the stored list,             *)
(* probe.before the list the last call was given.                          *)

(* Faulty variant: a same-node continuation is recorded again *)
recordVisitAlways(visited, old, next) == Append(visited, next)

(* spec.md 4.6 step 5: the new NodeID is appended if the node changed *)
recordVisit(visited, old, next) ==
    IF next # old THEN Append(visited, next) ELSE visited

(* spec.md 4.6 step 7: a forced move to "death" is recorded if the call    *)
(* was not at "death" already                                              *)
recordDeath(visited, r) ==
    IF r.State.NodeID = DeathNodeID /\ r.trace.next # DeathNodeID
    THEN Append(visited, DeathNodeID)
    ELSE visited

(* spec.md 4.6 steps 4-7: a call that fails or finds no destination        *)
(* returns before the history is touched                                   *)
visitedAfter(visited, r) ==
    IF r.err # "" \/ ~r.trace.routed
    THEN visited
    ELSE recordDeath(recordVisit(visited, r.trace.from.NodeID, r.trace.next), r)

(* spec.md says nothing of the list a new player starts with: it is empty  *)
(* or holds the start node                                                 *)
InitVisited ==
    /\ hasDeath \in BOOLEAN
    /\ player = NewPlayer("start")
    /\ res = NoResult
    /\ pc = "idle"
    /\ \E v \in {<<>>, <<"start">>} :
          probe = [fn |-> "visited", before |-> v, nodes |-> v]

(* POST /play up to Store.Put, the history included *)
PlayVisited ==
    /\ pc = "idle"
    /\ \E choiceKey \in Inputs(Engine(Story(hasDeath)), player) :
         \E d \in Rolls(ApplyChoice(Engine(Story(hasDeath)), player, choiceKey,
                                    2, 2, 2).trace) :
            Put(ApplyChoice(Engine(Story(hasDeath)), player, choiceKey,
                            d[1], d[2], d[3]))
    /\ probe' = [probe EXCEPT !.before = probe.nodes,
                              !.nodes = visitedAfter(probe.nodes, res')]
    /\ pc' = "returned"
    /\ UNCHANGED hasDeath

NextVisited == PlayVisited \/ Respond

SpecVisited == InitVisited /\ [][NextVisited]_vars

NodeChanged == res.State.NodeID # T.from.NodeID

----------------------------------------------------------------------------
(* Two /play requests of one session in flight at once.  handlePlay        *)
(* (part_011:44-80) takes no lock of its own; MemoryStore (memory.go) holds *)
(* its mutex inside Get and inside Put only, so the steps of the two       *)
(* requests interleave at will.  probe.store is the stored state of the    *)
(* session, probe.reqs the two requests.                                   *)

Requests == {"A", "B"}

RaceEngine == Engine(Story(TRUE))

(* The states the session is in when the two requests arrive *)
RaceStarts ==
    { NewPlayer("start"),
      ApplyChoice(RaceEngine, NewPlayer("start"), <<"descend">>, 2, 2, 2).State }

NewRequest(key) == [at |-> "get", key |-> key, st |-> 0, State |-> 0]

InitRace ==
    /\ Idle
    /\ \E s \in RaceStarts :
         \E ka \in Inputs(RaceEngine, s), kb \in Inputs(RaceEngine, s) :
            probe = [fn |-> "race", start |-> s, store |-> s,
                     reqs |-> [r \in Requests |->
                                  NewRequest(IF r = "A" THEN ka ELSE kb)]]

(* part_011:46, memory.go:19-24: Store.Get under the read lock *)
handlePlayGet(r) ==
    /\ probe.fn = "race" /\ probe.reqs[r].at = "get"
    /\ probe' = [probe EXCEPT !.reqs[r].at = "apply", !.reqs[r].st = probe.store]
    /\ UNCHANGED <<player, res, pc, hasDeath>>

(* part_011:58-62: ApplyChoice on the request's own copy; an error ends    *)
(* the request without a Put                                               *)
handlePlayApply(r) ==
    /\ probe.fn = "race" /\ probe.reqs[r].at = "apply"
    /\ \E d \in Rolls(ApplyChoice(RaceEngine, probe.reqs[r].st, probe.reqs[r].key,
                                  2, 2, 2).trace) :
         LET out == ApplyChoice(RaceEngine, probe.reqs[r].st, probe.reqs[r].key,
                                d[1], d[2], d[3])
         IN  probe' = [probe EXCEPT
                         !.reqs[r].at = IF out.err = "" THEN "put" ELSE "done",
                         !.reqs[r].State = out.State]
    /\ UNCHANGED <<player, res, pc, hasDeath>>

(* part_011:63-66, memory.go:26-31: Store.Put under the write lock *)
handlePlayPut(r) ==
    /\ probe.fn = "race" /\ probe.reqs[r].at = "put"
    /\ probe' = [probe EXCEPT !.reqs[r].at = "done",
                              !.store = probe.reqs[r].State]
    /\ UNCHANGED <<player, res, pc, hasDeath>>

NextRace ==
    \E r \in Requests : handlePlayGet(r) \/ handlePlayApply(r) \/ handlePlayPut(r)

SpecRace == InitRace /\ [][NextRace]_vars

(* The states one request alone can leave in the store *)
Outcomes(s, key) ==
    { LET out == ApplyChoice(RaceEngine, s, key, d[1], d[2], d[3])
      IN  IF out.err = "" THEN out.State ELSE s :
        d \in Rolls(ApplyChoice(RaceEngine, s, key, 2, 2, 2).trace) }

Serial(s, first, second) ==
    UNION { Outcomes(s1, second) : s1 \in Outcomes(s, first) }

BothDone == probe.fn = "race" /\ \A r \in Requests : probe.reqs[r].at = "done"

(* C17: when two /play requests of one session have both finished, the     *)
(* stored state is what the two choices give when applied one after the    *)
(* other, in one order or the other                                        *)
C17_NoLostUpdate ==
    BothDone =>
        probe.store \in Serial(probe.start, probe.reqs["A"].key, probe.reqs["B"].key)
                        \cup Serial(probe.start, probe.reqs["B"].key,
                                    probe.reqs["A"].key)


----------------------------------------------------------------------------
(* Two sessions on one Engine.  The Story the engine holds is state here   *)
(* (probe.story): each call reads it as the calls before have left it.     *)
(* probe.st is the PlayerState of each session, probe.got the StepResult   *)
(* of its last call; probe.solo and probe.alone are the same for a session *)
(* that makes the same calls, with the same dice, on a Story of its own.   *)

Sessions == {"A", "B"}

(* Both sessions have reached the forest: descend, then go *)
SharedStart ==
    ApplyChoice(Engine(Story(TRUE)),
                ApplyChoice(Engine(Story(TRUE)), NewPlayer("start"),
                            <<"descend">>, 2, 2, 2).State,
                <<"go">>, 2, 2, 2).State

(* Faulty variant: the materialized enemies are the Battle's own list, so  *)
(* the health a round writes lands in the Story                            *)
callStoryEnemiesAliased(story, r) ==
    IF /\ r.err = "" /\ r.trace.battle.fought
       /\ Len(r.State.Enemies) =
             Len(story[r.trace.from.NodeID].Choices[r.trace.choice].Battle.Enemies)
    THEN [story EXCEPT ![r.trace.from.NodeID].Choices[r.trace.choice].Battle.Enemies =
             [i \in 1..Len(r.State.Enemies) |->
                 [@[i] EXCEPT !.Health = r.State.Enemies[i].Health]]]
    ELSE story

(* engine.go:135-231: the Story after a call.  ApplyChoice and its helpers *)
(* assign to *st, lastRoll and lastOutcome only; getBattleEnemies (57-77)  *)
(* builds st.Enemies as a new slice of copies                              *)
callStory(story, r) == story

(* What the caller is shown of a StepResult *)
shown(r) ==
    [LastRoll |-> r.LastRoll, LastOutcome |-> r.LastOutcome,
     ErrorMessage |-> r.ErrorMessage, err |-> r.err]

InitShared ==
    /\ Idle
    /\ probe = [fn |-> "shared", calls |-> 0, story |-> Story(TRUE),
                st |-> [s \in Sessions |-> SharedStart],
                solo |-> [s \in Sessions |-> SharedStart],
                got |-> [s \in Sessions |-> shown(NoResult)],
                alone |-> [s \in Sessions |-> shown(NoResult)]]

stateAfter(st, r) == IF r.err = "" THEN r.State ELSE st

(* The session's call returned r; the same call on a Story of its own      *)
(* returned own                                                            *)
recordCall(s, r, own) ==
    [probe EXCEPT !.calls = @ + 1,
                  !.got[s] = shown(r),
                  !.st[s] = stateAfter(@, r),
                  !.alone[s] = shown(own),
                  !.solo[s] = stateAfter(@, own),
                  !.story = callStory(@, r)]

(* The dice of this check: a low, a middle and a high total *)
SharedRolls == {NoRoll} \cup {r \in roll2d6 : r \in {3, 7, 11}}

CallShared(s) ==
    /\ probe.fn = "shared" /\ probe.calls < MaxCalls
    /\ \E choiceKey \in Inputs(Engine(probe.story), probe.st[s]) :
         \E d \in Rolls(ApplyChoice(Engine(probe.story), probe.st[s], choiceKey,
                                    2, 2, 2).trace)
                   \cap (SharedRolls \X SharedRolls \X SharedRolls) :
            probe' = recordCall(s,
                        ApplyChoice(Engine(probe.story), probe.st[s], choiceKey,
                                    d[1], d[2], d[3]),
                        ApplyChoice(Engine(Story(TRUE)), probe.solo[s], choiceKey,
                                    d[1], d[2], d[3]))
    /\ UNCHANGED <<player, res, pc, hasDeath>>

NextShared == \E s \in Sessions : CallShared(s)

SpecShared == InitShared /\ [][NextShared]_vars

----------------------------------------------------------------------------
(* The enemy list of a stored state *)

(* C19: the Enemies of every state the session holds between calls has at  *)
(* most three entries, each with Health at least 1: a longer list is       *)
(* stored as one Horde, an enemy brought to 0 is removed by the call that  *)
(* brought it there                                                        *)
C19_EnemiesBounded ==
    /\ Len(player.Enemies) <= 3
    /\ \A i \in 1..Len(player.Enemies) : player.Enemies[i].Health >= 1

C19_Witness ==
    /\ Returned /\ B.fought
    /\ Len(T.from.Enemies) = 2
    /\ B.round.newEnemyHealth <= 0
    /\ Len(player.Enemies) = 1
    /\ player.Enemies[1].Health >= 1


----------------------------------------------------------------------------
(* Character setup: GET /start, POST /reroll, POST /begin                  *)
(* (internal/web/handlers_start.go).  probe.st is the stored state of the  *)
(* session, probe.last the handler that stored it, probe.rerolls the       *)
(* POST /reroll requests served since /start, probe.kept whether the last  *)
(* request left the Stats as they were.                                    *)

(* The dice of this check: the lowest, the middle and the highest total *)
SetupRolls == {r \in roll2d6 : r \in {2, 7, 12}}

(* character.go (unnamed/part_001:61-72): Strength 2d6+6, Luck 2d6,        *)
(* Health 2d6+6                                                            *)
RollStatsDetailed ==
    { Stats(s + 6, l, h + 6) : s \in SetupRolls, l \in SetupRolls, h \in SetupRolls }

(* The setup fields of a PlayerState, types.go (unnamed/part_006:19-29) *)
SetupState(node, stats) == [NodeID |-> node, Stats |-> stats, RerollUsed |-> FALSE]

(* handlers_start.go:51-105: a new player with rolled stats is stored *)
handleStart ==
    /\ probe.fn = "setup"
    /\ \E stats \in RollStatsDetailed :
          probe' = [probe EXCEPT !.st = SetupState("start", stats),
                                 !.last = "start", !.rerolls = 0, !.kept = FALSE]
    /\ UNCHANGED <<player, res, pc, hasDeath>>

InitSetup ==
    /\ Idle
    /\ \E stats \in RollStatsDetailed :
          probe = [fn |-> "setup", st |-> SetupState("start", stats),
                   last |-> "start", rerolls |-> 0, kept |-> FALSE]

(* handlers_start.go:108-158: the stored state gets newly rolled Stats *)
handleReroll ==
    /\ probe.fn = "setup" /\ probe.rerolls < MaxRerolls
    /\ \E stats \in RollStatsDetailed :
          probe' = [probe EXCEPT !.st.Stats = stats,
                                 !.last = "reroll", !.rerolls = @ + 1,
                                 !.kept = (stats = probe.st.Stats)]
    /\ UNCHANGED <<player, res, pc, hasDeath>>

(* handlers_start.go:161-250: the stored state is moved to the story's     *)
(* start node                                                              *)
handleBegin ==
    /\ probe.fn = "setup" /\ probe.last # "begin"
    /\ probe' = [probe EXCEPT !.st.NodeID = "start", !.last = "begin",
                              !.kept = TRUE]
    /\ UNCHANGED <<player, res, pc, hasDeath>>

NextSetup == handleStart \/ handleReroll \/ handleBegin

SpecSetup == InitSetup /\ [][NextSetup]_vars

(* C20: stats are rerolled at most once per session.  The state a          *)
(* POST /reroll or a POST /begin stores has RerollUsed set, and a          *)
(* POST /reroll after the first leaves the stored Stats as they were       *)
C20_RerollOnce ==
    probe.fn = "setup" =>
        /\ probe.last \in {"reroll", "begin"} => probe.st.RerollUsed
        /\ (probe.last = "reroll" /\ probe.rerolls >= 2) => probe.kept

----------------------------------------------------------------------------
(* The battle keys of the view, makeViewModel (unnamed/part_011:152-188) *)

(* strconv.Itoa on an enemy index *)
Itoa(i) == CHOOSE s \in DOMAIN Digits : Digits[s] = i

(* part_011:166-186: with enemies in the state, the Key of the node's      *)
(* first choice with a Battle prefixes attack:i and luck:i for every       *)
(* enemy, and run                                                          *)
EffectiveChoices(node, st) ==
    IF Len(st.Enemies) = 0
       \/ FirstIndex([i \in 1..Len(node.Choices) |-> node.Choices[i].hasBattle]) = 0
       \/ node.Choices[FirstIndex([i \in 1..Len(node.Choices) |->
                                      node.Choices[i].hasBattle])].Key = ""
    THEN {}
    ELSE { <<node.Choices[FirstIndex([i \in 1..Len(node.Choices) |->
                 node.Choices[i].hasBattle])].Key>> \o sfx :
             sfx \in {<<"run">>}
                     \cup {<<a, Itoa(i - 1)>> : a \in {"attack", "luck"},
                                                i \in 1..Len(st.Enemies)} }

(* The keys the view showed for the state the last call was given *)
Offered == EffectiveChoices(Story(hasDeath)[T.from.NodeID], T.from)

(* C21: while a battle is active the view offers attack:i and luck:i for   *)
(* every enemy, offers run only when the battle choice has a Next, and     *)
(* no offered key ends in "No destination for that choice."                *)
C21_OfferedKeysResolve ==
    (Returned /\ T.key \in Offered) =>
        /\ \A i \in 1..Len(T.from.Enemies) :
              /\ <<T.key[1], "attack", Itoa(i - 1)>> \in Offered
              /\ <<T.key[1], "luck", Itoa(i - 1)>> \in Offered
        /\ <<T.key[1], "run">> \in Offered => Ch.Next # ""
        /\ res.ErrorMessage # "No destination for that choice."

----------------------------------------------------------------------------
(* The session store, MemoryStore (internal/session/memory.go).  probe.m   *)
(* is the map, probe.writer and probe.readers the state of the RWMutex,    *)
(* probe.procs the callers; probe.last holds for each id the value of the  *)
(* last Put that has returned, probe.puts the values Put was called with,  *)
(* probe.raced whether the latest Puts of an id overlapped each other.     *)

Callers == {"p", "q"}

StoreIds == {"s1", "s2"}

StoreValues == {"a", "b"}

NoCall == [at |-> "idle", op |-> "", id |-> "", v |-> "", value |-> "", ok |-> FALSE,
           quiet |-> FALSE, had |-> FALSE, seen |-> ""]

(* memory.go:15-17: NewMemoryStore, an empty map *)
InitStore ==
    /\ Idle
    /\ probe = [fn |-> "store", ops |-> 0, m |-> <<>>,
                writer |-> FALSE, readers |-> 0,
                procs |-> [c \in Callers |-> NoCall],
                last |-> <<>>,
                puts |-> [i \in StoreIds |-> {}],
                raced |-> [i \in StoreIds |-> FALSE]]

(* Some Put of the id has been entered and has not returned *)
PutUnderWay(id) ==
    \E o \in Callers : /\ probe.procs[o].op = "Put"
                        /\ probe.procs[o].at # "idle"
                        /\ probe.procs[o].id = id

(* A caller enters Get(id) or Put(id, v) *)
storeCall(c) ==
    /\ probe.fn = "store" /\ probe.procs[c].at = "idle" /\ probe.ops < MaxOps
    /\ \E op \in {"Get", "Put"}, id \in StoreIds, v \in StoreValues :
         /\ op = "Get" => v = "a"
         /\ probe' = [probe EXCEPT
                !.ops = @ + 1,
                !.procs[c] = [NoCall EXCEPT !.at = "lock", !.op = op, !.id = id,
                                            !.v = IF op = "Put" THEN v ELSE ""],
                !.puts[id] = IF op = "Put" THEN @ \cup {v} ELSE @,
                !.raced[id] = IF op = "Put" THEN PutUnderWay(id) ELSE @]
    /\ UNCHANGED <<player, res, pc, hasDeath>>

(* memory.go:20, 27: s.mu.RLock() for Get, s.mu.Lock() for Put *)
storeLock(c) ==
    /\ probe.fn = "store" /\ probe.procs[c].at = "lock"
    /\ ~probe.writer
    /\ probe.procs[c].op = "Put" => probe.readers = 0
    /\ probe' = [probe EXCEPT
           !.procs[c].at = "locked",
           !.writer = (probe.procs[c].op = "Put"),
           !.readers = IF probe.procs[c].op = "Get" THEN @ + 1 ELSE @]
    /\ UNCHANGED <<player, res, pc, hasDeath>>

(* memory.go:19-24: v, ok := s.m[id] and the deferred RUnlock; quiet tells *)
(* that no Put of this id was under way and the latest had not overlapped, *)
(* had and seen what the last Put of this id that had returned was         *)
storeGet(c) ==
    /\ probe.fn = "store" /\ probe.procs[c].at = "locked" /\ probe.procs[c].op = "Get"
    /\ probe' = [probe EXCEPT
           !.readers = @ - 1,
           !.procs[c].at = "idle",
           !.procs[c].ok = (probe.procs[c].id \in DOMAIN probe.m),
           !.procs[c].value = IF probe.procs[c].id \in DOMAIN probe.m
                              THEN probe.m[probe.procs[c].id] ELSE "",
           !.procs[c].had = (probe.procs[c].id \in DOMAIN probe.last),
           !.procs[c].seen = IF probe.procs[c].id \in DOMAIN probe.last
                             THEN probe.last[probe.procs[c].id] ELSE "",
           !.procs[c].quiet = /\ ~PutUnderWay(probe.procs[c].id)
                              /\ ~probe.raced[probe.procs[c].id]]
    /\ UNCHANGED <<player, res, pc, hasDeath>>

(* Faulty variant: the value is stored under every id *)
storeWriteAllIds(m, id, v) == [i \in StoreIds |-> v]

(* memory.go:29: s.m[id] = v *)
storeWrite(m, id, v) ==
    [i \in DOMAIN m \cup {id} |-> IF i = id THEN v ELSE m[i]]

(* memory.go:26-30: the write and the deferred Unlock *)
storePut(c) ==
    /\ probe.fn = "store" /\ probe.procs[c].at = "locked" /\ probe.procs[c].op = "Put"
    /\ probe' = [probe EXCEPT
           !.writer = FALSE,
           !.procs[c].at = "return",
           !.m = storeWrite(@, probe.procs[c].id, probe.procs[c].v)]
    /\ UNCHANGED <<player, res, pc, hasDeath>>

(* memory.go:30: Put returns nil to its caller *)
storeReturn(c) ==
    /\ probe.fn = "store" /\ probe.procs[c].at = "return"
    /\ probe' = [probe EXCEPT
           !.procs[c].at = "idle",
           !.last = [i \in DOMAIN @ \cup {probe.procs[c].id} |->
                        IF i = probe.procs[c].id THEN probe.procs[c].v ELSE @[i]]]
    /\ UNCHANGED <<player, res, pc, hasDeath>>

NextStore ==
    \E c \in Callers :
        storeCall(c) \/ storeLock(c) \/ storeGet(c) \/ storePut(c) \/ storeReturn(c)

SpecStore == InitStore /\ [][NextStore]_vars

(* A Get of caller c has returned *)
GotBy(c) ==
    /\ probe.fn = "store"
    /\ probe.procs[c].op = "Get" /\ probe.procs[c].at = "idle"

----------------------------------------------------------------------------
(* Freshly rolled characters *)

(* C23: a character stored by /start or /reroll has Strength and Luck in   *)
(* [2,12], each the total of two dice, and Health in [8,18], the total of  *)
(* two dice plus 6, and so satisfies the global stat bounds                *)
C23_FreshStatsInRange ==
    (probe.fn = "setup" /\ probe.last \in {"start", "reroll"}) =>
        /\ probe.st.Stats.Strength \in roll2d6
        /\ probe.st.Stats.Luck \in roll2d6
        /\ probe.st.Stats.Health - 6 \in roll2d6
        /\ probe.st.Stats.Strength >= MinStat /\ probe.st.Stats.Strength <= MaxStat
        /\ probe.st.Stats.Luck >= MinStat /\ probe.st.Stats.Luck <= MaxStat

----------------------------------------------------------------------------
(* The dice behind a reported roll.  A read of the entropy source either   *)
(* fails or yields a number; probe.reads are the two reads behind the      *)
(* player's roll of one call, probe.faces the die faces kept for display,  *)
(* probe.out the StepResult of the call.                                   *)

EntropyReads ==
    {[failed |-> TRUE, n |-> 0]} \cup {[failed |-> FALSE, n |-> k] : k \in 0..MaxEntropy}

(* Faulty variant: the + 1 is missing *)
rollDieFromZero(read) == IF read.failed THEN 1 ELSE read.n % 6

(* d6, engine.go:433-443: 1 when rand.Read fails, else int(n%6) + 1 *)
rollDie(read) == IF read.failed THEN 1 ELSE (read.n % 6) + 1

(* spec.md 4.1: roll2d6 keeps the two faces; engine.go:429-431 adds them *)
roll2d6Ex(r1, r2) ==
    [faces |-> <<rollDie(r1), rollDie(r2)>>, total |-> rollDie(r1) + rollDie(r2)]

InitDice ==
    /\ Idle
    /\ \E st \in RaceStarts \cup {SharedStart} :
         \E key \in Inputs(RaceEngine, st), r1 \in EntropyReads, r2 \in EntropyReads,
            enemyRoll \in SharedRolls \ {NoRoll} :
            probe = [fn |-> "dice", done |-> FALSE, st |-> st, key |-> key,
                     reads |-> <<r1, r2>>, enemyRoll |-> enemyRoll,
                     faces |-> <<0, 0>>, out |-> shown(NoResult)]

(* One call whose check or battle round rolls the player's dice from the   *)
(* two reads                                                               *)
RunDice ==
    /\ probe.fn = "dice" /\ ~probe.done
    /\ probe' = [probe EXCEPT
          !.done = TRUE,
          !.faces = roll2d6Ex(probe.reads[1], probe.reads[2]).faces,
          !.out = shown(ApplyChoice(RaceEngine, probe.st, probe.key,
                           roll2d6Ex(probe.reads[1], probe.reads[2]).total,
                           roll2d6Ex(probe.reads[1], probe.reads[2]).total,
                           probe.enemyRoll))]
    /\ UNCHANGED <<player, res, pc, hasDeath>>

SpecDice == InitDice /\ [][RunDice]_vars

(* C24: every die is in [1,6], and is 1 when the entropy source failed,    *)
(* with no error reaching the caller; every total reported as LastRoll by  *)
(* a check or a battle round is in [2,12] and is the sum of the two die    *)
(* faces of the player's roll                                              *)
C24_DiceInRange ==
    (probe.fn = "dice" /\ probe.done) =>
        /\ probe.out.err = ""
        /\ \A i \in 1..2 :
              /\ probe.faces[i] >= 1 /\ probe.faces[i] <= 6
              /\ probe.reads[i].failed => probe.faces[i] = 1
        /\ probe.out.LastRoll # NoRoll =>
              /\ probe.out.LastRoll >= 2 /\ probe.out.LastRoll <= 12
              /\ probe.out.LastRoll = probe.faces[1] + probe.faces[2]

C24_Witness ==
    /\ probe.fn = "dice" /\ probe.done
    /\ probe.reads[1].failed /\ ~probe.reads[2].failed /\ probe.reads[2].n = MaxEntropy
    /\ probe.out.LastRoll = 7
    /\ probe.out.LastOutcome # NoOutcome

----------------------------------------------------------------------------
(* Normalization as a function *)

(* C25: normalizing a normalized text changes nothing, for every typed     *)
(* text and every Match / Matches text of the prompt                       *)
C25_NormalizeIdempotent ==
    probe.fn = "prompt" =>
        /\ normalizeAnswer(normalizeAnswer(probe.answer)) = normalizeAnswer(probe.answer)
        /\ \A i \in 1..Len(probe.ch.Prompt.Answers) :
              LET a == probe.ch.Prompt.Answers[i]
              IN  /\ normalizeAnswer(normalizeAnswer(a.Match)) = normalizeAnswer(a.Match)
                  /\ \A k \in 1..Len(a.Matches) :
                        normalizeAnswer(normalizeAnswer(a.Matches[k])) =
                            normalizeAnswer(a.Matches[k])

C25_Witness ==
    /\ PromptCall
    /\ probe.answer = <<"A", " ", "!", " ">>
    /\ normalizeAnswer(probe.answer) = <<"a">>
    /\ normalizeAnswer(<<"a">>) = <<"a">>
    /\ probe.out.State.NodeID = "right"

----------------------------------------------------------------------------
(* Leaving an encounter by a choice without a Battle *)

DisengageCall == Selected /\ ~Ch.hasBattle /\ Len(T.from.Enemies) > 0

(* The same call made by the same player with no enemies around *)
CalmCall ==
    ApplyChoice(Engine(Story(hasDeath)), [T.from EXCEPT !.Enemies = <<>>], T.key,
                T.checkRoll, 2, 2)

(* C26: a choice without a Battle taken while Enemies is non-empty empties *)
(* Enemies, fights no round, and routes the player as the same choice      *)
(* routes a player who has no enemies                                      *)
C26_DisengageThenRoute ==
    DisengageCall =>
        /\ res.State.Enemies = <<>>
        /\ ~B.called /\ ~B.fought
        /\ res.State = CalmCall.State
        /\ res.LastRoll = CalmCall.LastRoll
        /\ res.LastOutcome = CalmCall.LastOutcome
        /\ res.ErrorMessage = CalmCall.ErrorMessage

C26_Witness ==
    /\ DisengageCall
    /\ T.from.NodeID = "forest" /\ T.key = <<"sneak">>
    /\ T.from.Enemies[1].Health = 1
    /\ res.State.NodeID = "weak" /\ res.State.Enemies = <<>>

----------------------------------------------------------------------------
(* Battle keys that name no action, engine.go:263-273 *)

(* The call reached the action parsing with enemies in place and the key   *)
(* names neither "run" nor an attack / luck on an enemy that is there      *)
InvalidActionCall ==
    /\ Selected /\ Ch.hasBattle /\ B.called
    /\ Len(B.entry.Enemies) > 0
    /\ battleAction(Ch, T.key) # <<"run">>
    /\ targetIndex(battleAction(Ch, T.key), Len(B.entry.Enemies)) = -1

(* C27: a battle key whose action is not run, attack:<i> or luck:<i>, or   *)
(* whose index is not a number in [0, len(Enemies)), is a no-op for every  *)
(* battle choice, also one with a non-empty Next: no battle dice are       *)
(* rolled, no Luck is spent, nobody is damaged, NodeID does not change and *)
(* the call ends in "No destination for that choice."                      *)
C27_InvalidActionIsNoOp ==
    InvalidActionCall =>
        /\ ~B.fought /\ ~B.ran
        /\ B.playerRoll = NoRoll /\ B.enemyRoll = NoRoll
        /\ B.settled = B.entry
        /\ res.State.Stats = B.entry.Stats
        /\ res.State.Enemies = B.entry.Enemies
        /\ res.State.NodeID = T.from.NodeID
        /\ res.ErrorMessage = "No destination for that choice."

----------------------------------------------------------------------------
(* One resolver per call, engine.go:168-202 *)

(* C28: a single ApplyChoice call runs at most one of a stat check and a   *)
(* battle round (the stories played here carry no Prompt); for a choice    *)
(* with both a Check and a Battle it does not both roll the check and      *)
(* fight a round                                                           *)
C28_OneResolverPerCall ==
    Returned => ~(T.checked /\ B.fought)

----------------------------------------------------------------------------
(* The enemy list across one round, engine.go:284-298 *)

RoundFought == Returned /\ B.fought

(* The list the round started from, the list the bookkeeping left, the     *)
(* 1-based position of the target and whether its health was spent         *)
EnemiesBefore == B.armed.Enemies

EnemiesKept == B.kept

TargetAt == B.index + 1

TargetSpent == B.round.newEnemyHealth <= 0

----------------------------------------------------------------------------
(* An encounter across calls, engine.go:234-242 and 295-310 *)

(* The round left an enemy standing and the player alive *)
RoundGoesOn ==
    RoundFought /\ Len(res.State.Enemies) >= 1 /\ res.State.Stats.Health > 0

(* The call entered the battle with enemies an earlier call had left *)
RoundResumed == Returned /\ B.called /\ Len(T.from.Enemies) > 0

(* C30: after an attack / luck round that leaves an enemy alive and the    *)
(* player's Health above 0 the NodeID is unchanged and the stored state    *)
(* holds the survivors with their current health; the next call fights     *)
(* those very enemies, for the Battle definition is materialized again     *)
(* only when Enemies is empty                                              *)
C30_EncounterCarriesOver ==
    /\ RoundGoesOn =>
          /\ res.State.NodeID = T.from.NodeID
          /\ player.NodeID = T.from.NodeID
          /\ player.Enemies = res.State.Enemies
    /\ RoundResumed =>
          /\ ~B.materialized
          /\ B.entry.Enemies = T.from.Enemies
    /\ (Returned /\ B.materialized) => T.from.Enemies = <<>>

(* A round against the Orc while the Goblin, wounded in an earlier call,   *)
(* still has the one health point that call left it                        *)
C30_Witness ==
    /\ RoundGoesOn /\ RoundResumed
    /\ T.from.NodeID = "forest"
    /\ T.from.Enemies[1].Name = "Goblin" /\ T.from.Enemies[1].Health = 1
    /\ B.index = 1
    /\ Len(res.State.Enemies) = 2 /\ res.State.Enemies[1].Health = 1
    /\ res.State.NodeID = "forest"

----------------------------------------------------------------------------
(* Entry effects, engine.go:208-219 *)

(* The state the call had reached when the destination was resolved: the   *)
(* choice's effects are in, and so is the battle or the disengagement      *)
BeforeEntry ==
    IF B.called THEN B.settled
    ELSE [T.effected EXCEPT !.Enemies = <<>>]

(* engine.go:215-218: a destination the story does not define has none *)
EntryEffects ==
    IF T.next \in DOMAIN Story(hasDeath)
    THEN Story(hasDeath)[T.next].Effects
    ELSE <<>>

Moved == Returned /\ T.routed /\ T.next # T.from.NodeID

Stayed == Returned /\ T.routed /\ T.next = T.from.NodeID

(* C31: the destination's entry Effects are applied exactly once when the  *)
(* resolved destination differs from the node the player was on, after the *)
(* choice's own effects and before the death check, and not at all when    *)
(* the destination is the current node                                     *)
C31_EntryEffectsOnce ==
    /\ Moved =>
          /\ T.entered = applyEffects([BeforeEntry EXCEPT !.NodeID = T.next],
                                      EntryEffects)
          /\ res.State = gameOver(Engine(Story(hasDeath)), T.entered)
    /\ Stayed =>
          /\ T.entered = BeforeEntry
          /\ res.State = gameOver(Engine(Story(hasDeath)), BeforeEntry)

(* Arriving at the cave costs ten points of health, once *)
C31_Witness ==
    /\ Moved /\ T.next = "cave"
    /\ T.entered.Stats.Health = BeforeEntry.Stats.Health - 10
    /\ T.entered.Stats.Health > 0
    /\ res.State.NodeID = "cave"

----------------------------------------------------------------------------
(* The last enemy falls, engine.go:299-304 and 193-209 *)

LastEnemySlain == RoundFought /\ B.kept = <<>>

VictoryNext ==
    IF Ch.Battle.OnVictoryNext # ""
    THEN Ch.Battle.OnVictoryNext
    ELSE checkNext(Ch, T.checkOk)

----------------------------------------------------------------------------
(* A battle without enemies, engine.go:234-242 and 57-77 *)

(* The selected battle choice defines no enemy and none is around *)
EmptyBattleCall ==
    /\ Selected /\ Ch.hasBattle
    /\ Len(Ch.Battle.Enemies) = 0
    /\ Ch.Battle.EnemyName = "" /\ Ch.Battle.EnemyHealth <= 0
    /\ T.from.Enemies = <<>>

(* C33: invoking a battle choice whose definition yields no enemies        *)
(* resolves at once to the Battle's OnVictoryNext for any action suffix:   *)
(* no dice are rolled, no outcome is reported, Luck is not spent and       *)
(* Enemies stays empty                                                     *)
C33_EmptyBattleIsWon ==
    EmptyBattleCall =>
        /\ B.called /\ ~B.fought /\ ~B.ran
        /\ B.playerRoll = NoRoll /\ B.enemyRoll = NoRoll
        /\ B.settled = T.effected
        /\ res.State.Enemies = <<>>
        /\ Ch.Battle.OnVictoryNext # "" =>
              /\ T.routed /\ T.next = Ch.Battle.OnVictoryNext
              /\ T.entered.Stats.Health > MinHealth =>
                    res.State.NodeID = Ch.Battle.OnVictoryNext
        /\ ~Ch.hasCheck => res.LastRoll = NoRoll /\ res.LastOutcome = NoOutcome

(* A luck attack on the enemy-less battle of the start node: the player is *)
(* on the victory node with the Luck that node grants, none spent          *)
C33_Witness ==
    /\ EmptyBattleCall /\ T.key = <<"ghost", "luck", "0">>
    /\ T.from.NodeID = "start"
    /\ res.State.NodeID = "victory"
    /\ B.settled.Stats.Luck = T.from.Stats.Luck
    /\ res.LastRoll = NoRoll

----------------------------------------------------------------------------
(* One encounter fought to its end: a player stands at a node whose battle *)
(* choice carries no Effects and submits nothing but valid attack and luck *)
(* actions, README.md:179-181 and engine.go:295-354.                       *)

(* The totals the dice of a round come to *)
EncounterRolls == {2, 6, 7, 12}

EncounterStarts ==
    {PlayerState(node, Stats(s, l, h), <<>>) :
        node \in {"forest", "duel"}, s \in {4, 7, 12}, l \in {1, 3}, h \in 0..3}

(* The battle choice the player fights through: the first one of the node *)
BattleChoice(st) == Story(hasDeath)[st.NodeID].Choices[1]

(* The enemies a call on st meets *)
Standing(st) ==
    IF Len(st.Enemies) > 0 THEN st.Enemies
    ELSE beginBattle(st, BattleChoice(st).Battle).Enemies

(* "<key>:attack:<i>" and "<key>:luck:<i>" for every enemy that stands *)
ValidActions(st) ==
    {<<BattleChoice(st).Key, a, Itoa(i - 1)>> :
        a \in {"attack", "luck"}, i \in 1..Len(Standing(st))}

(* A player at Health 0 is one the story had no "death" node for *)
InitEncounter ==
    /\ hasDeath \in BOOLEAN
    /\ player \in EncounterStarts
    /\ hasDeath => player.Stats.Health > MinHealth
    /\ res = NoResult
    /\ pc = "idle"
    /\ probe = [fn |-> "encounter", on |-> TRUE]

(* One round of the encounter with the given dice *)
Round(choiceKey, playerRoll, enemyRoll) ==
    /\ Put(ApplyChoice(Engine(Story(hasDeath)), player, choiceKey,
                       NoRoll, playerRoll, enemyRoll))
    /\ probe' = [probe EXCEPT !.on = res'.State.Enemies # <<>>]
    /\ pc' = "returned"
    /\ UNCHANGED hasDeath

RoundIsTie(st, choiceKey, playerRoll, enemyRoll) ==
    ApplyChoice(Engine(Story(hasDeath)), st, choiceKey, NoRoll, playerRoll, enemyRoll)
        .trace.battle.round.outcome = OutcomeTie

(* A round both sides come out of unharmed *)
TieRound ==
    /\ pc = "idle" /\ probe.fn = "encounter" /\ probe.on
    /\ \E choiceKey \in ValidActions(player), pr \in EncounterRolls, er \in EncounterRolls :
          /\ RoundIsTie(player, choiceKey, pr, er)
          /\ Round(choiceKey, pr, er)

(* A round one side loses health in *)
HitRound ==
    /\ pc = "idle" /\ probe.fn = "encounter" /\ probe.on
    /\ \E choiceKey \in ValidActions(player), pr \in EncounterRolls, er \in EncounterRolls :
          /\ ~RoundIsTie(player, choiceKey, pr, er)
          /\ Round(choiceKey, pr, er)

NextEncounter == TieRound \/ HitRound \/ Respond

(* The call that has just returned fought a round one side lost health in *)
HitReturned == Returned /\ B.fought /\ B.round.outcome # OutcomeTie

EncounterOver == probe.fn = "encounter" /\ ~probe.on

(* Every response is rendered, and while the encounter lasts non-tie       *)
(* rounds keep occurring: the dice are independent draws (engine.go:       *)
(* 319-320) and a hit round is possible in every state of the encounter,   *)
(* so this is strong fairness of HitRound, stated on the states it leaves  *)
SpecEncounter ==
    InitEncounter /\ [][NextEncounter]_vars
    /\ WF_vars(Respond)
    /\ []<>(EncounterOver \/ HitReturned)

(* Player Health plus the health of all enemies *)
TotalHealth(st) == st.Stats.Health + sumHealth(st.Enemies)

(* Every non-tie round strictly decreases the total health *)
HitRoundsCost ==
    HitReturned => TotalHealth(B.settled) < TotalHealth(B.entry)

(* The encounter is over with Enemies empty, by victory or by defeat *)
EndsWonOrLost ==
    /\ EncounterOver => player.Enemies = <<>>
    /\ (EncounterOver /\ Returned) =>
          /\ res.State.Enemies = <<>>
          /\ \/ B.kept = <<>>
             \/ B.round.outcome = OutcomeDefeat /\ res.State.Stats.Health = MinHealth

(* C34: for a battle choice without Effects and a player who keeps         *)
(* submitting valid attack or luck actions, every non-tie round strictly   *)
(* decreases player Health plus total enemy Health, so when non-tie rounds *)
(* keep occurring the encounter eventually ends with Enemies empty, by     *)
(* victory (all enemies removed) or by defeat (player Health 0)            *)
C34_EncounterEnds ==
    /\ [](HitRoundsCost /\ EndsWonOrLost)
    /\ <>EncounterOver

(* The player falls in a round against two enemies, one of them wounded in *)
(* an earlier round                                                        *)
C34_Witness ==
    /\ EncounterOver /\ Returned
    /\ B.round.outcome = OutcomeDefeat
    /\ Len(T.from.Enemies) = 2 /\ T.from.Enemies[1].Health = 1
    /\ res.State.Stats.Health = MinHealth /\ res.State.Enemies = <<>>

----------------------------------------------------------------------------
(* The death override on every return, engine.go:162-163 and 204-228 *)

(* C35: in every state returned by ApplyChoice, the soft failures returned *)
(* after the choice's Effects were applied included, Health 0 in a story   *)
(* that defines a "death" node means NodeID is "death"                     *)
C35_DeadMeansDeathNode ==
    (Returned /\ hasDeath /\ res.State.Stats.Health <= MinHealth) =>
        res.State.NodeID = DeathNodeID

----------------------------------------------------------------------------
(* Enemies and the node they belong to, engine.go:193-228 and 234-273 *)

(* C36: whenever an ApplyChoice call changes NodeID, the Enemies list of   *)
(* the returned state is empty, also when the death override fires during  *)
(* an active battle and when a battle key with an invalid action is        *)
(* submitted for a choice that has a Next                                  *)
C36_MovedMeansNoEnemies ==
    (Returned /\ res.State.NodeID # T.from.NodeID) => res.State.Enemies = <<>>

----------------------------------------------------------------------------
(* The node pointer stays inside the story, engine.go:125-131, 208-228,    *)
(* 305-308.  Every Next, OnSuccessNext, OnFailureNext and OnVictoryNext of *)
(* the story played names one of its nodes, and the player starts on one.  *)

(* C37: after any sequence of ApplyChoice calls NodeID is a key of         *)
(* Story.Nodes, so CurrentNode never fails, also after a battle defeat in  *)
(* a story that defines no "death" node                                    *)
C37_NodeStaysKnown ==
    /\ player.NodeID \in DOMAIN Story(hasDeath)
    /\ pc = "returned" => res.err = ""

----------------------------------------------------------------------------
(* The stored state and the request that fights a round on a copy of it.   *)
(* MemoryStore.Get returns the PlayerState by value (memory.go:19-24), so  *)
(* the copy's Enemies slice has the header of the stored one and the same  *)
(* backing array; handlePlay passes the copy to ApplyChoice by pointer     *)
(* (part_011:44-66) and applyBattle writes through the slice (engine.go:   *)
(* 295-298).  array is that backing array, stored and local the two        *)
(* PlayerState values with the length of their Enemies slice.              *)

AliasStarts ==
    {PlayerState("forest", Stats(7, l, h),
                 <<EnemyState("Goblin", 8, g), EnemyState("Orc", 10, 1)>>) :
        l \in {1, 3}, h \in {1, 2}, g \in {1, 2}}

AliasRolls == {3, 7, 11}

(* A PlayerState value as its holder reads it: the fields and the first    *)
(* len elements of the backing array                                       *)
Deref(hdr, array) ==
    PlayerState(hdr.NodeID, hdr.Stats, SubSeq(array, 1, hdr.len))

Header(st) == [NodeID |-> st.NodeID, Stats |-> st.Stats, len |-> Len(st.Enemies)]

StoredView == Deref(probe.stored, probe.array)

InitAlias ==
    /\ Idle
    /\ \E st \in AliasStarts :
          probe = [fn |-> "alias", at |-> "idle", array |-> st.Enemies,
                   stored |-> Header(st), local |-> Header(st), before |-> st,
                   key |-> <<>>, playerRoll |-> NoRoll, enemyRoll |-> NoRoll,
                   seen |-> <<>>]

(* The round the request fights, as applyBattle computes it from its copy *)
AliasLuck == probe.key[2] = "luck"

AliasIndex == Atoi(SubSeq(probe.key, 3, 3)).n

AliasRound ==
    resolveBattleRound(IF AliasLuck THEN spendLuck(probe.before) ELSE probe.before,
                       probe.before.Enemies[AliasIndex + 1].Strength,
                       probe.before.Enemies[AliasIndex + 1].Health,
                       IF AliasLuck THEN 2 ELSE 1,
                       probe.playerRoll, probe.enemyRoll)

(* What the call returns to handlePlay *)
AliasResult ==
    ApplyChoice(RaceEngine, probe.before, probe.key, NoRoll,
                probe.playerRoll, probe.enemyRoll)

(* part_011:46 and memory.go:19-24: the request reads the stored value *)
aliasGet ==
    /\ probe.fn = "alias" /\ probe.at = "idle"
    /\ \E a \in {"attack", "luck"}, i \in 0..(probe.stored.len - 1),
          pr \in AliasRolls, er \in AliasRolls :
          probe' = [probe EXCEPT !.at = "got", !.local = probe.stored,
                                 !.before = StoredView,
                                 !.key = <<"battle", a, Itoa(i)>>,
                                 !.playerRoll = pr, !.enemyRoll = er]
    /\ UNCHANGED <<player, res, pc, hasDeath>>

(* engine.go:275-295: the round is resolved on the copy, and the target's  *)
(* new health is written through the slice                                 *)
aliasWrite ==
    /\ probe.fn = "alias" /\ probe.at = "got"
    /\ probe' = [probe EXCEPT
          !.at = "written",
          !.local.Stats = AliasRound.st.Stats,
          !.array[AliasIndex + 1].Health = AliasRound.newEnemyHealth]
    /\ UNCHANGED <<player, res, pc, hasDeath>>

(* engine.go:296-298: append(s[:i], s[i+1:]...) moves the elements behind  *)
(* the target one place down inside the backing array and shortens the     *)
(* copy's slice                                                            *)
aliasRemove ==
    /\ probe.fn = "alias" /\ probe.at = "written"
    /\ probe' = [probe EXCEPT
          !.at = "removed",
          !.array = IF AliasRound.newEnemyHealth <= 0
                    THEN [j \in 1..Len(probe.array) |->
                            IF j > AliasIndex /\ j < probe.local.len
                            THEN probe.array[j + 1]
                            ELSE probe.array[j]]
                    ELSE probe.array,
          !.local.len = IF AliasRound.newEnemyHealth <= 0
                        THEN probe.local.len - 1
                        ELSE probe.local.len]
    /\ UNCHANGED <<player, res, pc, hasDeath>>

(* part_011:58-61 and memory.go:26-31: the returned state is stored *)
aliasPut ==
    /\ probe.fn = "alias" /\ probe.at = "removed"
    /\ probe' = [probe EXCEPT !.at = "put",
                              !.stored = Header(AliasResult.State),
                              !.local = Header(AliasResult.State),
                              !.array = AliasResult.State.Enemies]
    /\ UNCHANGED <<player, res, pc, hasDeath>>

(* A second request for the same session reads the stored value *)
aliasPeek ==
    /\ probe.fn = "alias" /\ probe.seen = <<>>
    /\ probe' = [probe EXCEPT !.seen = <<StoredView>>]
    /\ UNCHANGED <<player, res, pc, hasDeath>>

NextAlias == aliasGet \/ aliasWrite \/ aliasRemove \/ aliasPut \/ aliasPeek

SpecAlias == InitAlias /\ [][NextAlias]_vars

(* C38: the stored PlayerState changes only through Put: while a request   *)
(* resolves a battle round on the state it got, the stored value is as it  *)
(* was, and a concurrent Get sees the state before the round or the state  *)
(* put after it, never a partially applied round                           *)
C38_StoredChangesByPutOnly ==
    probe.fn = "alias" =>
        /\ probe.at \in {"got", "written", "removed"} => StoredView = probe.before
        /\ probe.seen # <<>> =>
              \/ probe.seen[1] = probe.before
              \/ probe.at = "put" /\ probe.seen[1] \in {StoredView, probe.before}

====
